---- MODULE Spec2Model ----
(***************************************************************************)
(* A model of the foraging simulation: the Environment's tick loop and its *)
(* lock (environment.py), the food items and food sources (food.py), the   *)
(* areas (area.py) and the agents (agent.py).                              *)
(*                                                                         *)
(* Numbers.  The code computes with floats; the model uses fixed point:    *)
(*   food_left, hp, energy      in units of 0.01                           *)
(*   area food_regen_modifier   in tenths                                  *)
(*   agent positions            in units of 1e-6 (the epsilon of           *)
(*                              _apply_bounds is then exactly 1)           *)
(*   angles                     in whole degrees                           *)
(* A draw of random.random()/randint() is a nondeterministic choice.       *)
(***************************************************************************)
EXTENDS Integers, Sequences, FiniteSets, TLC

VARIABLES
    grid_width,             \* Environment.grid_width
    grid_height,            \* Environment.grid_height
    running,                \* Environment.running
    tick_counter,           \* Environment.tick_counter
    data_lock,              \* Environment.data_lock: "free" or its holder
    food_sources,           \* Environment.food_sources (a list of FoodSource)
    food_items,             \* Environment.food_items (a list of Food)
    current_food_sources,   \* Area.current_food_sources, per area id
    agents,                 \* Environment.agents (a list of Agent)
    bound_x,                \* Agent.bound_x (class attribute)
    bound_y,                \* Agent.bound_y (class attribute)
    sim_pc,                 \* where the simulation thread is in _simulation_loop
    source_index,           \* position of `for source in self.food_sources`
    new_food_items,         \* the local new_food_items of a tick
    render_pc,              \* where the render() caller is
    render_view,            \* what render() saw when it took the lock
    ticks_after_shutdown,   \* history: ticks begun after running became False
    budget,                 \* bound: the ticks (or calls) the model still follows
    last_call               \* history: the last method call and what it returned

vars == <<grid_width, grid_height, running, tick_counter, data_lock,
          food_sources, food_items, current_food_sources, agents,
          bound_x, bound_y, sim_pc, source_index, new_food_items,
          render_pc, render_view, ticks_after_shutdown, budget, last_call>>

(***************************************************************************)
(* Bounds of the model.                                                    *)
(***************************************************************************)
\* the ticks followed on a world whose food no longer changes at random
MaxTicks == 2

\* the ticks followed on a world whose sources drop and expand at random
GrowthTicks == 1

\* update() calls followed on an agent from where the model picks it up
AgentUpdates == 2

\* ticks followed while a clone grows back into a dead source's cell
RegrowTicks == 4

\* ticks followed while the sources of a world expand
GrowTicks == 2

\* ticks followed around the expiry of a Food
AgingTicks == 2

\* updates of a BerryBush, at each end of its life, whose draws are followed
DropUpdates == 10

\* updates of a source, at each end of its life, in which destroy() may be called
SourceUpdates == 3

\* update() calls followed on a Food or a FoodSource after it has expired
\* or was destroyed
ExtraUpdates == 2

(***************************************************************************)
(* Helpers.                                                                *)
(***************************************************************************)
Min(a, b) == IF a < b THEN a ELSE b

Max(a, b) == IF a > b THEN a ELSE b

NoCall == [op |-> "none"]

\* the element of a set of one element
Only(S) == CHOOSE r \in S : TRUE

(***************************************************************************)
(* area.py / environment.py:32-56 -- the four areas.                       *)
(***************************************************************************)
AreaIds == 1..4

\* food_regen_modifier of each area, in tenths (1.2, 1.5, 0.5, 1.2)
food_regen_modifier(area) ==
    CASE area = 1 -> 12
      [] area = 2 -> 15
      [] area = 3 -> 5
      [] area = 4 -> 12

\* every area's max_food_sources
max_food_sources == 5

\* the live-source counter of a freshly built area
InitialFoodSourceCount == 0

(***************************************************************************)
(* food.py -- Food.                                                        *)
(***************************************************************************)
NoFood == [kind |-> "None"]

Food(position, value, food_type, expiry_time) ==
    [kind |-> "Food", x |-> position[1], y |-> position[2], value |-> value,
     type |-> food_type, expiry_time |-> expiry_time, age |-> 0]

\* Food.update(): the item after the call
FoodAged(f) == [f EXCEPT !.age = f.age + 1]

\* an update() that compares the age before the increment
FoodExpiredBeforeAging(f) == f.age >= f.expiry_time

\* an update() that lets a Food live one update longer
FoodExpiredLate(f) == FoodAged(f).age > f.expiry_time

\* Food.update(): the value returned, True when the food has expired
FoodExpired(f) == FoodAged(f).age >= f.expiry_time

(***************************************************************************)
(* food.py -- FoodSource and its four variants.                            *)
(***************************************************************************)
Classes == {"SimpleGrassPatch", "BerryBush", "FertileFruitTree", "CactusPads"}

IntervalClasses == {"SimpleGrassPatch", "FertileFruitTree", "CactusPads"}

\* __init__ of each variant: lifespan
Lifespan(cls) ==
    CASE cls = "SimpleGrassPatch" -> 1000
      [] cls = "BerryBush"        -> 1000
      [] cls = "FertileFruitTree" -> 4000
      [] cls = "CactusPads"       -> 5000

\* __init__ of each variant: max_capacity (= the initial food_left), in 0.01
MaxCapacity(cls) ==
    CASE cls = "SimpleGrassPatch" -> 10000
      [] cls = "BerryBush"        -> 4000
      [] cls = "FertileFruitTree" -> 5000
      [] cls = "CactusPads"       -> 3000

\* production_interval of the interval producers (BerryBush has none)
ProductionInterval(cls) ==
    CASE cls = "SimpleGrassPatch" -> 100
      [] cls = "FertileFruitTree" -> 100
      [] cls = "CactusPads"       -> 80
      [] OTHER                    -> 0

\* regeneration per update, in 0.01: rate * area.food_regen_modifier
\* (rates 0.1, 0.05, 0.2, 0.1; the modifier is in tenths)
Regen(cls, area) ==
    CASE cls = "SimpleGrassPatch" -> (10 * food_regen_modifier(area)) \div 10
      [] cls = "BerryBush"        -> (5 * food_regen_modifier(area)) \div 10
      [] cls = "FertileFruitTree" -> (20 * food_regen_modifier(area)) \div 10
      [] cls = "CactusPads"       -> (10 * food_regen_modifier(area)) \div 10

\* food_left needed for, and taken by, one production, in 0.01
ProductionCost(cls) ==
    CASE cls = "SimpleGrassPatch" -> 1000
      [] cls = "BerryBush"        -> 500
      [] cls = "FertileFruitTree" -> 1000
      [] cls = "CactusPads"       -> 500

\* value of the Food a variant emits
FoodValue(cls) ==
    CASE cls = "SimpleGrassPatch" -> 20
      [] cls = "BerryBush"        -> 10
      [] cls = "FertileFruitTree" -> 30
      [] cls = "CactusPads"       -> 15

\* expiry_time of the Food a variant emits
FoodExpiry(cls) ==
    CASE cls = "SimpleGrassPatch" -> 500
      [] cls = "BerryBush"        -> 1000
      [] cls = "FertileFruitTree" -> 1200
      [] cls = "CactusPads"       -> 400

\* cls(position=(x, y), area=area)
NewFoodSource(cls, x, y, area) ==
    [cls |-> cls, x |-> x, y |-> y, area |-> area,
     food_left |-> MaxCapacity(cls), is_destroyed |-> FALSE, age |-> 0,
     lifespan |-> Lifespan(cls), tick_count |-> 0]

\* a destroy() that counts down on every call
DestroyCounterAgain(s, counters) ==
    [counters EXCEPT ![s.area] = Max(0, counters[s.area] - 1)]

\* FoodSource.destroy(): the area counter after the call
DestroyCounter(s, counters) ==
    IF ~s.is_destroyed
    THEN [counters EXCEPT ![s.area] = Max(0, counters[s.area] - 1)]
    ELSE counters

\* FoodSource.destroy(): the source after the call
DestroySource(s) == [s EXCEPT !.is_destroyed = TRUE]

\* an increment_age() that destroys the source one update late
increment_age_late(s, counters) ==
    LET aged == [s EXCEPT !.age = s.age + 1]
    IN  IF aged.age > aged.lifespan
        THEN [source |-> DestroySource(aged),
              counters |-> DestroyCounter(aged, counters)]
        ELSE [source |-> aged, counters |-> counters]

\* FoodSource.increment_age(): [source, counters] after the call
increment_age(s, counters) ==
    LET aged == [s EXCEPT !.age = s.age + 1]
    IN  IF aged.age >= aged.lifespan
        THEN [source |-> DestroySource(aged),
              counters |-> DestroyCounter(aged, counters)]
        ELSE [source |-> aged, counters |-> counters]

\* a regeneration step without the min() against max_capacity
RegeneratedUncapped(s) ==
    IF s.food_left < MaxCapacity(s.cls)
    THEN [s EXCEPT !.food_left = s.food_left + Regen(s.cls, s.area)]
    ELSE s

\* the regeneration step of every update()
Regenerated(s) ==
    IF s.food_left < MaxCapacity(s.cls)
    THEN [s EXCEPT !.food_left =
              Min(MaxCapacity(s.cls), s.food_left + Regen(s.cls, s.area))]
    ELSE s

\* the Food a source drops at its own position
Emitted(s) ==
    Food(<<s.x, s.y>>, FoodValue(s.cls), "herbivore", FoodExpiry(s.cls))

\* an interval producer that waits one update too long
IntervalReadyLate(s) ==
    /\ s.tick_count > ProductionInterval(s.cls)
    /\ s.food_left >= ProductionCost(s.cls)

\* whether an interval producer produces on this update
IntervalReady(s) ==
    /\ s.tick_count >= ProductionInterval(s.cls)
    /\ s.food_left >= ProductionCost(s.cls)

\* an interval producer that emits without paying the cost
IntervalProduceUnpaid(s) ==
    LET r == Regenerated(s)
        t == [r EXCEPT !.tick_count = r.tick_count + 1]
    IN  IF IntervalReady(t)
        THEN [source |-> [t EXCEPT !.tick_count = 0], result |-> Emitted(t)]
        ELSE [source |-> t, result |-> NoFood]

\* SimpleGrassPatch/FertileFruitTree/CactusPads.update() after increment_age,
\* for a source that is not destroyed: [source, result]
IntervalProduce(s) ==
    LET r == Regenerated(s)
        t == [r EXCEPT !.tick_count = r.tick_count + 1]
    IN  IF IntervalReady(t)
        THEN [source |-> [t EXCEPT !.tick_count = 0,
                                   !.food_left = Max(0, t.food_left - ProductionCost(t.cls))],
              result |-> Emitted(t)]
        ELSE [source |-> t, result |-> NoFood]

\* BerryBush.update() after increment_age, for a source that is not
\* destroyed; drop is the draw random.random() < random_drop_chance
BerryProduce(s, drop) ==
    LET r == Regenerated(s)
    IN  IF r.food_left >= ProductionCost(r.cls) /\ drop
        THEN [source |-> [r EXCEPT !.food_left = Max(0, r.food_left - ProductionCost(r.cls))],
              result |-> Emitted(r)]
        ELSE [source |-> r, result |-> NoFood]

\* <variant>.update(): [source, result, counters] after the call
SourceUpdate(s, counters, drop) ==
    LET a == increment_age(s, counters)
    IN  IF a.source.is_destroyed
        THEN [source |-> a.source, result |-> NoFood, counters |-> a.counters]
        ELSE LET p == IF s.cls = "BerryBush" THEN BerryProduce(a.source, drop)
                      ELSE IntervalProduce(a.source)
             IN  [source |-> p.source, result |-> p.result, counters |-> a.counters]

(***************************************************************************)
(* agent.py -- Agent.                                                      *)
(***************************************************************************)
\* one position unit is 1e-6: a coordinate c of the code is c * PositionUnit
PositionUnit == 1000000

\* the 1e-6 of _apply_bounds, in position units
Epsilon == 1

ACTION_MOVE == 0

ACTION_IDLE == 1

ACTION_FLEE == 2

ACTION_MATE == 3

ACTION_ATTACK == 4

action_count == 5

Actions == 0..(action_count - 1)

\* _clamp
clamp(x, lo, hi) == IF x < lo THEN lo ELSE IF x > hi THEN hi ELSE x

\* the largest r in lo..hi with r * r <= n
RECURSIVE ISqrtBetween(_, _, _)
ISqrtBetween(n, lo, hi) ==
    IF lo >= hi THEN lo
    ELSE LET mid == (lo + hi + 1) \div 2
         IN  IF mid * mid <= n THEN ISqrtBetween(n, mid, hi)
             ELSE ISqrtBetween(n, lo, mid - 1)

\* floor(sqrt(n))
ISqrt(n) == ISqrtBetween(n, 0, Min(n, 46340))

\* math.cos of a whole number of degrees, in thousandths
CosTable ==
    <<
       1000, 1000, 999, 999, 998, 996, 995, 993, 990, 988, 985, 982,
       978, 974, 970, 966, 961, 956, 951, 946, 940, 934, 927, 921,
       914, 906, 899, 891, 883, 875, 866, 857, 848, 839, 829, 819,
       809, 799, 788, 777, 766, 755, 743, 731, 719, 707, 695, 682,
       669, 656, 643, 629, 616, 602, 588, 574, 559, 545, 530, 515,
       500, 485, 469, 454, 438, 423, 407, 391, 375, 358, 342, 326,
       309, 292, 276, 259, 242, 225, 208, 191, 174, 156, 139, 122,
       105, 87, 70, 52, 35, 17, 0, -17, -35, -52, -70, -87,
       -105, -122, -139, -156, -174, -191, -208, -225, -242, -259, -276, -292,
       -309, -326, -342, -358, -375, -391, -407, -423, -438, -454, -469, -485,
       -500, -515, -530, -545, -559, -574, -588, -602, -616, -629, -643, -656,
       -669, -682, -695, -707, -719, -731, -743, -755, -766, -777, -788, -799,
       -809, -819, -829, -839, -848, -857, -866, -875, -883, -891, -899, -906,
       -914, -921, -927, -934, -940, -946, -951, -956, -961, -966, -970, -974,
       -978, -982, -985, -988, -990, -993, -995, -996, -998, -999, -999, -1000,
       -1000, -1000, -999, -999, -998, -996, -995, -993, -990, -988, -985, -982,
       -978, -974, -970, -966, -961, -956, -951, -946, -940, -934, -927, -921,
       -914, -906, -899, -891, -883, -875, -866, -857, -848, -839, -829, -819,
       -809, -799, -788, -777, -766, -755, -743, -731, -719, -707, -695, -682,
       -669, -656, -643, -629, -616, -602, -588, -574, -559, -545, -530, -515,
       -500, -485, -469, -454, -438, -423, -407, -391, -375, -358, -342, -326,
       -309, -292, -276, -259, -242, -225, -208, -191, -174, -156, -139, -122,
       -105, -87, -70, -52, -35, -17, 0, 17, 35, 52, 70, 87,
       105, 122, 139, 156, 174, 191, 208, 225, 242, 259, 276, 292,
       309, 326, 342, 358, 375, 391, 407, 423, 438, 454, 469, 485,
       500, 515, 530, 545, 559, 574, 588, 602, 616, 629, 643, 656,
       669, 682, 695, 707, 719, 731, 743, 755, 766, 777, 788, 799,
       809, 819, 829, 839, 848, 857, 866, 875, 883, 891, 899, 906,
       914, 921, 927, 934, 940, 946, 951, 956, 961, 966, 970, 974,
       978, 982, 985, 988, 990, 993, 995, 996, 998, 999, 999, 1000
    >>

Cos1000(deg) == CosTable[(deg % 360) + 1]

Sin1000(deg) == Cos1000(deg - 90)

Abs(x) == IF x < 0 THEN -x ELSE x

\* math.degrees(math.atan2(y, x)) to the nearest degree, in -179..180
Atan2Deg(y, x) ==
    IF x = 0 /\ y = 0 THEN 0
    ELSE LET scale == IF Max(Abs(x), Abs(y)) <= 1000000 THEN 1 ELSE 1000
             dot(d) == Cos1000(d) * (x \div scale) + Sin1000(d) * (y \div scale)
         IN  Only({(CHOOSE p \in dots : \A q \in dots : p[1] >= q[1])[2] :
                      dots \in {{<<dot(d), d>> : d \in -179..180}}})

BodyKeys == {"hp", "energy", "speed", "attack", "lifespan", "sight", "agility"}

body_points_total == 100

input_size == 16

output_size == action_count + 2

\* Agent._random_matrix(input_size, output_size, scale=0.6): two of the
\* matrices it may draw, weights in thousandths within [-600, 600]
ExampleW ==
    [i \in 1..input_size |->
        [j \in 1..output_size |-> (((i * 7 + j * 13) % 13) - 6) * 100]]

OtherW ==
    [i \in 1..input_size |->
        [j \in 1..output_size |-> (((i * j * 5 + i + 3 * j) % 11) - 5) * 120]]

WChoices == {ExampleW, OtherW}

\* Agent(position) with the draws of __init__ given: the heading angle and
\* the body points (W is ExampleW); position is in the caller's whole units.
\* sight is in units of 0.01; inputs_override and last_target are <<>> for
\* None
NewAgent(position, angle, body_points) ==
    [x |-> position[1] * PositionUnit,
     y |-> position[2] * PositionUnit,
     angle |-> angle,
     last_action |-> ACTION_MOVE,
     max_hp |-> 1000 + ISqrt(40000 * body_points.hp),
     max_energy |-> 1000 + ISqrt(40000 * body_points.energy),
     base_speed |-> 50000 + 20 * ISqrt(1000000 * body_points.speed),
     max_age |-> 200 + ISqrt(196 * body_points.lifespan),
     agility |-> 30000 + ISqrt(4000000 * body_points.agility),
     hp |-> 1000 + ISqrt(40000 * body_points.hp),
     energy |-> 1000 + ISqrt(40000 * body_points.energy),
     age |-> 0,
     sight |-> 200 + ISqrt(1225 * body_points.sight),
     W |-> ExampleW,
     inputs_override |-> <<>>,
     last_target |-> <<>>]

\* a mirror that stands on the bound itself
ReflectedAboutBound(c, bound, max_c) ==
    IF c < 0 THEN -c
    ELSE IF c >= bound THEN 2 * bound - c
    ELSE c

\* the mirrored coordinate of _apply_bounds: c stays when it is in range
Reflected(c, bound, max_c) ==
    IF c < 0 THEN -c
    ELSE IF c >= bound THEN 2 * max_c - c
    ELSE c

\* an _apply_bounds that stores the heading as it comes
apply_bounds_unwrapped(bx, by, new_x, new_y, new_angle) ==
    IF bx <= 0 \/ by <= 0
    THEN [x |-> new_x, y |-> new_y, angle |-> new_angle]
    ELSE LET max_x == Max(0, bx - Epsilon)
             max_y == Max(0, by - Epsilon)
             out_x == new_x < 0 \/ new_x >= bx
             out_y == new_y < 0 \/ new_y >= by
             rx == Reflected(new_x, bx, max_x)
             ax == IF out_x THEN 180 - new_angle ELSE new_angle
             ry == Reflected(new_y, by, max_y)
             ay == IF out_y THEN 360 - ax ELSE ax
         IN  [x |-> Max(0, Min(rx, max_x)),
              y |-> Max(0, Min(ry, max_y)),
              angle |-> ay]

\* Agent._apply_bounds: [x, y, angle] after the call; bx, by are bound_x and
\* bound_y in position units
apply_bounds(bx, by, new_x, new_y, new_angle) ==
    IF bx <= 0 \/ by <= 0
    THEN [x |-> new_x, y |-> new_y, angle |-> new_angle % 360]
    ELSE LET max_x == Max(0, bx - Epsilon)
             max_y == Max(0, by - Epsilon)
             out_x == new_x < 0 \/ new_x >= bx
             out_y == new_y < 0 \/ new_y >= by
             rx == Reflected(new_x, bx, max_x)
             ax == IF out_x THEN 180 - new_angle ELSE new_angle
             ry == Reflected(new_y, by, max_y)
             ay == IF out_y THEN 360 - ax ELSE ax
         IN  [x |-> Max(0, Min(rx, max_x)),
              y |-> Max(0, Min(ry, max_y)),
              angle |-> ay % 360]

\* Agent._move; turn and intensity are in thousandths
move(a, bx, by, turn, intensity) ==
    LET turn_delta == (turn * (a.agility \div 2)) \div 1000000
        new_angle == a.angle + turn_delta
        inten == clamp(500 + intensity \div 2, 0, 1000)
        sp == (a.base_speed * (200 + (1300 * inten) \div 1000)) \div 1000
        new_x == a.x + (Cos1000(new_angle) * sp) \div 1000
        new_y == a.y - (Sin1000(new_angle) * sp) \div 1000
        b == apply_bounds(bx, by, new_x, new_y, new_angle)
        cost == (2000 + 6 * inten) \div 1000
    IN  [a EXCEPT !.x = b.x, !.y = b.y, !.angle = b.angle,
                  !.energy = Max(0, a.energy - cost)]

\* Agent._idle
idle(a) == [a EXCEPT !.energy = Min(a.max_energy, a.energy + 3)]

\* Agent._flee
flee(a, bx, by, turn, intensity) ==
    IF a.last_target = <<>>
    THEN move(a, bx, by, turn, intensity)
    ELSE LET dx == a.x - a.last_target[1]
             dy == a.y - a.last_target[2]
         IN  Only({move([a EXCEPT !.angle = ang % 360], bx, by, 0, Max(200, intensity)) :
                      ang \in {Atan2Deg(-dy, dx)}})

\* an _attack that also steps forward
attack_lunging(a) == [a EXCEPT !.energy = Max(0, a.energy - 8), !.x = a.x + Epsilon]

\* Agent._attack
attack(a) == [a EXCEPT !.energy = Max(0, a.energy - 8)]

\* Agent._mate
mate(a) == [a EXCEPT !.energy = Max(0, a.energy - 5)]

\* a _tick_body that does not count the update
tick_body_timeless(a) ==
    LET e == Max(0, a.energy - 1)
        h == IF e <= 1 THEN Max(0, a.hp - 3) ELSE a.hp
    IN  [a EXCEPT !.energy = e,
                  !.hp = IF a.age >= a.max_age THEN 0 ELSE h]

\* a _tick_body that forgets max_age
tick_body_ageless(a) ==
    LET e == Max(0, a.energy - 1)
    IN  [a EXCEPT !.age = a.age + 1,
                  !.energy = e,
                  !.hp = IF e <= 1 THEN Max(0, a.hp - 3) ELSE a.hp]

\* Agent._tick_body
tick_body(a) ==
    LET e == Max(0, a.energy - 1)
        h == IF e <= 1 THEN Max(0, a.hp - 3) ELSE a.hp
    IN  [a EXCEPT !.age = a.age + 1,
                  !.energy = e,
                  !.hp = IF a.age + 1 >= a.max_age THEN 0 ELSE h]

\* Agent.is_alive
is_alive(a) == a.hp > 0

\* Agent.update, given the triple d = [action, turn, intensity] that
\* decide(think(inputs)) returns
update(a, bx, by, d) ==
    IF ~is_alive(a) THEN a
    ELSE LET chosen == [a EXCEPT !.last_action = d.action]
             acted == CASE d.action = ACTION_MOVE -> move(chosen, bx, by, d.turn, d.intensity)
                        [] d.action = ACTION_IDLE -> idle(chosen)
                        [] d.action = ACTION_FLEE -> flee(chosen, bx, by, d.turn, d.intensity)
                        [] d.action = ACTION_MATE -> mate(chosen)
                        [] OTHER                  -> attack(chosen)
         IN  tick_body(acted)

\* math.tanh of x, both in thousandths, by the Pade approximant
\* x (27 + x^2) / (27 + 9 x^2), exact to about 0.02 below 3 and 1 beyond
Tanh1000(x) ==
    IF x >= 3000 THEN 1000
    ELSE IF x <= -3000 THEN -1000
    ELSE LET y == IF x >= 0 THEN x \div 10 ELSE -((-x) \div 10)
             t == (10 * Abs(y) * (270000 + y * y)) \div (270000 + 9 * y * y)
         IN  IF y >= 0 THEN Min(1000, t) ELSE -Min(1000, t)

\* the sum over i in 1..n of term(i)
RECURSIVE SumTo(_, _)
SumTo(term(_), n) == IF n <= 0 THEN 0 ELSE term(n) + SumTo(term, n - 1)

\* a think whose weights fade with the agent's energy
think_tired(a, inputs) ==
    [j \in 1..output_size |->
        LET product(i) == inputs[i] * ((a.W[i][j] * a.energy) \div Max(1, a.max_energy))
            total == SumTo(product, input_size)
        IN  Tanh1000(IF total >= 0 THEN total \div 1000 ELSE -((-total) \div 1000))]

\* Agent.think: the output vector, in thousandths, for inputs in thousandths
think(a, inputs) ==
    [j \in 1..output_size |->
        LET product(i) == inputs[i] * a.W[i][j]
            scaled(total) == IF total >= 0 THEN total \div 1000
                             ELSE -((-total) \div 1000)
        IN  Only({Tanh1000(x) :
                     x \in {scaled(total) : total \in {SumTo(product, input_size)}}})]

\* the loop of decide from position i on, positions counting from 1:
\* best_i moves to i only when logits[i] > best_v
RECURSIVE BestFrom(_, _, _, _)
BestFrom(logits, i, best_i, best_v) ==
    IF i > Len(logits) THEN best_i
    ELSE IF logits[i] > best_v
         THEN BestFrom(logits, i + 1, i, logits[i])
         ELSE BestFrom(logits, i + 1, best_i, best_v)

\* a decide whose loop tests logits[i] >= best_v
RECURSIVE LastBestFrom(_, _, _, _)
LastBestFrom(logits, i, best_i, best_v) ==
    IF i > Len(logits) THEN best_i
    ELSE IF logits[i] >= best_v
         THEN LastBestFrom(logits, i + 1, i, logits[i])
         ELSE LastBestFrom(logits, i + 1, best_i, best_v)

decide_last(outputs) ==
    LET logits == SubSeq(outputs, 1, action_count)
    IN  [action |-> LastBestFrom(logits, 2, 1, logits[1]) - 1,
         turn |-> outputs[action_count + 1],
         intensity |-> outputs[action_count + 2]]

\* Agent.decide: (best_i, turn, intensity), best_i counting from 0
decide(outputs) ==
    LET logits == SubSeq(outputs, 1, action_count)
    IN  [action |-> BestFrom(logits, 2, 1, logits[1]) - 1,
         turn |-> outputs[action_count + 1],
         intensity |-> outputs[action_count + 2]]

\* the argument None of set_inputs, and a vector as its argument
NoInputs == [none |-> TRUE, vector |-> <<>>]

Inputs(vector) == [none |-> FALSE, vector |-> vector]

\* a set_inputs that drops the stored override before it checks the length
set_inputs_clearing(a, inputs) ==
    IF inputs.none \/ Len(inputs.vector) # input_size
    THEN [agent |-> [a EXCEPT !.inputs_override = <<>>],
          raised |-> ~inputs.none]
    ELSE [agent |-> [a EXCEPT !.inputs_override = inputs.vector], raised |-> FALSE]

\* Agent.set_inputs: the agent after the call and whether ValueError was
\* raised; float(x) keeps the value of a number
set_inputs(a, inputs) ==
    IF inputs.none
    THEN [agent |-> [a EXCEPT !.inputs_override = <<>>], raised |-> FALSE]
    ELSE IF Len(inputs.vector) # input_size
    THEN [agent |-> a, raised |-> TRUE]
    ELSE [agent |-> [a EXCEPT !.inputs_override = inputs.vector], raised |-> FALSE]

\* _dist2 between two points given in position units, in units of 0.0001
\* (coordinates are cut to 0.01 first, which keeps the squares in range)
dist2(ax, ay, px, py) ==
    LET dx == (ax - px) \div 10000
        dy == (ay - py) \div 10000
    IN  dx * dx + dy * dy

\* the index in points of the first point nearest to (x, y): the `best` of
\* the loops of sense
Nearest(x, y, points) ==
    CHOOSE k \in 1..Len(points) :
        /\ \A m \in 1..Len(points) :
              dist2(x, y, points[k][1], points[k][2])
                  <= dist2(x, y, points[m][1], points[m][2])
        /\ \A m \in 1..(k - 1) :
              dist2(x, y, points[k][1], points[k][2])
                  < dist2(x, y, points[m][1], points[m][2])

\* the three features of the nearest point: distance, dx, dy over sight
Features(a, point) ==
    LET d == ISqrt(dist2(a.x, a.y, point[1], point[2]))
        dx == (point[1] - a.x) \div 10000
        dy == (point[2] - a.y) \div 10000
        sight == Max(1, a.sight)
    IN  <<clamp((d * 1000) \div sight, 0, 1000),
          clamp((dx * 1000) \div sight, -1000, 1000),
          clamp((dy * 1000) \div sight, -1000, 1000)>>

\* how often `d2 < best_e_d2` holds in the loop over the other agents
RECURSIVE Improvements(_, _, _, _)
Improvements(x, y, points, k) ==
    IF k > Len(points) THEN 0
    ELSE (IF \A m \in 1..(k - 1) :
                dist2(x, y, points[k][1], points[k][2])
                    < dist2(x, y, points[m][1], points[m][2])
          THEN 1 ELSE 0) + Improvements(x, y, points, k + 1)

\* Agent.sense(foods, agents): the input vector in thousandths and
\* _last_target after the call.  foods and others are the positions, in
\* position units, of the objects passed (others without the agent itself);
\* <<>> stands for None and for an empty list, which the code treats alike.
\* bx, by are bound_x and bound_y in whole units
sense(a, bx, by, foods, others) ==
    LET wx == IF bx > 0 THEN bx ELSE 1
        wy == IF by > 0 THEN by ELSE 1
        food == IF foods = <<>> THEN <<1000, 0, 0>>
                ELSE Features(a, foods[Nearest(a.x, a.y, foods)])
        r2 == a.sight * a.sight
        friends == Cardinality({k \in 1..Len(others) :
                       dist2(a.x, a.y, others[k][1], others[k][2]) <= r2})
        enemy == IF others = <<>> THEN <<1000, 0, 0>>
                 ELSE Features(a, others[Nearest(a.x, a.y, others)])
    IN  [inputs |->
           <<clamp((a.hp * 1000) \div Max(1, a.max_hp), 0, 1000),
             clamp((a.energy * 1000) \div Max(1, a.max_energy), 0, 1000),
             clamp((a.age * 1000) \div Max(1, a.max_age), 0, 1000),
             clamp(a.x \div (wx * 1000), 0, 1000),
             clamp(a.y \div (wy * 1000), 0, 1000),
             Cos1000(a.angle),
             -Sin1000(a.angle),
             food[1], food[2], food[3],
             IF others = <<>> THEN 0 ELSE clamp(friends * 100, 0, 1000),
             IF others = <<>> THEN 0
             ELSE clamp(Improvements(a.x, a.y, others, 1) * 100, 0, 1000),
             enemy[1], enemy[2], enemy[3],
             1000>>,
         last_target |->
             IF foods = <<>> THEN a.last_target
             ELSE foods[Nearest(a.x, a.y, foods)]]

\* Agent.update as the code runs it: `inputs = self.sense()` passes neither
\* foods nor agents, and the decision is decide(think(inputs))
update_sensing(a, bx, by) ==
    IF ~is_alive(a) THEN a
    ELSE LET sensed == IF a.inputs_override = <<>>
                       THEN sense(a, bx, by, <<>>, <<>>)
                       ELSE [inputs |-> a.inputs_override,
                             last_target |-> a.last_target]
         IN  update([a EXCEPT !.last_target = sensed.last_target],
                    bx * PositionUnit, by * PositionUnit,
                    decide(think(a, sensed.inputs)))

\* Agent.update on the agents of a world whose Agent.bound_x/bound_y are
\* given in whole units
AgentUpdate(a, d) == update(a, bound_x * PositionUnit, bound_y * PositionUnit, d)

(***************************************************************************)
(* environment.py -- the world.                                            *)
(***************************************************************************)
\* an is_food_source_at that finds every cell free
is_food_source_nowhere(sources, x, y) == FALSE

\* Environment.is_food_source_at
is_food_source_at(sources, x, y) ==
    \E i \in 1..Len(sources) :
        sources[i].x = x /\ sources[i].y = y /\ ~sources[i].is_destroyed

\* Environment.get_area_at, for a world of the given size
get_area_at(w, h, x, y) ==
    LET mid_x == w \div 2
        mid_y == h \div 2
    IN  IF x < mid_x /\ y < mid_y THEN 1
        ELSE IF x >= mid_x /\ y < mid_y THEN 2
        ELSE IF x < mid_x /\ y >= mid_y THEN 3
        ELSE 4

\* Environment._spawn_initial_food_sources: (x_min, y_min, x_max, y_max)
Corners(w, h, area) ==
    LET mid_x == w \div 2
        mid_y == h \div 2
    IN  CASE area = 1 -> <<0, 0, mid_x - 1, mid_y - 1>>
          [] area = 2 -> <<mid_x, 0, w - 1, mid_y - 1>>
          [] area = 3 -> <<0, mid_y, mid_x - 1, h - 1>>
          [] area = 4 -> <<mid_x, mid_y, w - 1, h - 1>>

\* Environment._spawn_initial_food_sources: the table initial_sources
InitialSources(w, h) ==
    LET mid_x == w \div 2
        mid_y == h \div 2
    IN  << [cls |-> "SimpleGrassPatch", area |-> 1,
            positions |-> << <<2, 2>>, <<4, 4>> >>],
           [cls |-> "FertileFruitTree", area |-> 2,
            positions |-> << <<mid_x + 1, 1>>, <<mid_x + 3, 3>> >>],
           [cls |-> "CactusPads", area |-> 3,
            positions |-> << <<2, mid_y + 1>>, <<4, mid_y + 3>> >>],
           [cls |-> "BerryBush", area |-> 4,
            positions |-> << <<mid_x + 1, mid_y + 1>>, <<mid_x + 3, mid_y + 3>> >>] >>

\* the inner loop over one entry's positions, appending to sources
RECURSIVE SpawnPositions(_, _, _, _, _)
SpawnPositions(sources, entry, positions, w, h) ==
    IF positions = <<>> THEN sources
    ELSE LET p == Head(positions)
             c == Corners(w, h, entry.area)
             ok == /\ c[1] <= p[1] /\ p[1] <= c[3]
                   /\ c[2] <= p[2] /\ p[2] <= c[4]
                   /\ ~is_food_source_at(sources, p[1], p[2])
             next == IF ok
                     THEN Append(sources, NewFoodSource(entry.cls, p[1], p[2], entry.area))
                     ELSE sources
         IN  SpawnPositions(next, entry, Tail(positions), w, h)

\* the outer loop over initial_sources
RECURSIVE SpawnEntries(_, _, _, _)
SpawnEntries(sources, entries, w, h) ==
    IF entries = <<>> THEN sources
    ELSE LET e == Head(entries)
             existing_in_area == \E i \in 1..Len(sources) : sources[i].area = e.area
             next == IF ~existing_in_area
                     THEN SpawnPositions(sources, e, e.positions, w, h)
                     ELSE sources
         IN  SpawnEntries(next, Tail(entries), w, h)

\* Environment._spawn_initial_food_sources: food_sources after the call
spawn_initial_food_sources(w, h) == SpawnEntries(<<>>, InitialSources(w, h), w, h)

\* the number of food sources of an area that are not destroyed
LiveSources(sources, area) ==
    Cardinality({i \in 1..Len(sources) :
                    sources[i].area = area /\ ~sources[i].is_destroyed})

(***************************************************************************)
(* environment.py -- _simulation_loop, one action per step of the thread.  *)
(***************************************************************************)
\* a loop that never looks at the flag
WhileConditionIgnoringFlag(flag) == TRUE

\* the condition of `while self.running:`, for the value read from the flag
WhileCondition(flag) == flag

\* `while self.running:` -- the only read of the flag
SimWhile ==
    /\ sim_pc = "while"
    /\ IF WhileCondition(running)
       THEN budget > 0 /\ sim_pc' = "acquire"
       ELSE sim_pc' = "done"
    /\ UNCHANGED <<grid_width, grid_height, running, tick_counter, data_lock,
                   food_sources, food_items, current_food_sources, agents,
                   bound_x, bound_y, source_index, new_food_items, render_pc,
                   render_view, ticks_after_shutdown, budget, last_call>>

\* a lock that excludes nobody
CanAcquireHeldLock(lock) == TRUE

\* whether a thread that asks for data_lock gets it
CanAcquire(lock) == lock = "free"

\* where the simulation thread is while it is inside the `with` block
InTick == {"sources", "agents", "release"}

\* where the render() caller is while it is inside the `with` block
InRender == {"sources", "items", "agents", "text"}

\* `with self.data_lock:` entered, tick_counter += 1, new_food_items = []
SimAcquire ==
    /\ sim_pc = "acquire"
    /\ CanAcquire(data_lock)
    /\ data_lock' = "sim"
    /\ tick_counter' = tick_counter + 1
    /\ new_food_items' = <<>>
    /\ source_index' = 1
    /\ sim_pc' = "sources"
    /\ ticks_after_shutdown' = IF running THEN ticks_after_shutdown
                               ELSE ticks_after_shutdown + 1
    /\ budget' = budget - 1
    /\ UNCHANGED <<grid_width, grid_height, running, food_sources, food_items,
                   current_food_sources, agents, bound_x, bound_y, render_pc,
                   render_view, last_call>>

\* an expansion gate that does not look at the grid or at the area
CanExpandAnywhere(sources, counters, s, x, y) ==
    /\ ~is_food_source_at(sources, x, y)
    /\ counters[s.area] < max_food_sources

\* the expansion gate of the loop body: may source s put a clone at (x, y)
CanExpand(sources, counters, s, x, y) ==
    /\ 0 <= x /\ x < grid_width
    /\ 0 <= y /\ y < grid_height
    /\ ~is_food_source_at(sources, x, y)
    /\ get_area_at(grid_width, grid_height, x, y) = s.area
    /\ counters[s.area] < max_food_sources

\* one iteration of `for source in self.food_sources:`; drop and expand are
\* the draws of random.random(), dx and dy those of random.randint(-3, 3)
SimSource(drop, expand, dx, dy) ==
    /\ sim_pc = "sources"
    /\ source_index <= Len(food_sources)
    /\ LET u == SourceUpdate(food_sources[source_index], current_food_sources, drop)
           s == u.source
           updated == [food_sources EXCEPT ![source_index] = s]
           new_x == s.x + dx
           new_y == s.y + dy
       IN  IF s.is_destroyed
           THEN /\ food_items' = SelectSeq(food_items,
                                   LAMBDA f : <<f.x, f.y>> # <<s.x, s.y>>)
                /\ food_sources' = updated
                /\ current_food_sources' = u.counters
                /\ UNCHANGED new_food_items
           ELSE /\ new_food_items' = IF u.result.kind = "Food"
                                     THEN Append(new_food_items, u.result)
                                     ELSE new_food_items
                /\ IF expand /\ CanExpand(updated, u.counters, s, new_x, new_y)
                   THEN /\ food_sources' = Append(updated,
                                NewFoodSource(s.cls, new_x, new_y, s.area))
                        /\ current_food_sources' =
                                [u.counters EXCEPT ![s.area] = @ + 1]
                   ELSE /\ food_sources' = updated
                        /\ current_food_sources' = u.counters
                /\ UNCHANGED food_items
    /\ source_index' = source_index + 1
    /\ UNCHANGED <<grid_width, grid_height, running, tick_counter, data_lock,
                   agents, bound_x, bound_y, sim_pc, render_pc, render_view,
                   ticks_after_shutdown, budget, last_call>>

\* a loop over the sources that stops before the last of them
SimFoodItemsEarly ==
    /\ sim_pc = "sources"
    /\ source_index >= Len(food_sources)
    /\ food_items' = food_items
    /\ sim_pc' = "agents"
    /\ UNCHANGED <<grid_width, grid_height, running, tick_counter, data_lock,
                   food_sources, current_food_sources, agents, bound_x, bound_y,
                   source_index, new_food_items, render_pc, render_view,
                   ticks_after_shutdown, budget, last_call>>

\* after the loop: food_items.extend(new_food_items), then every item ages
\* and the expired ones are dropped
SimFoodItems ==
    /\ sim_pc = "sources"
    /\ source_index > Len(food_sources)
    /\ LET extended == food_items \o new_food_items
           food_to_keep == SelectSeq(extended, LAMBDA f : ~FoodExpired(f))
       IN  food_items' = [i \in 1..Len(food_to_keep) |-> FoodAged(food_to_keep[i])]
    /\ sim_pc' = "agents"
    /\ UNCHANGED <<grid_width, grid_height, running, tick_counter, data_lock,
                   food_sources, current_food_sources, agents, bound_x, bound_y,
                   source_index, new_food_items, render_pc, render_view,
                   ticks_after_shutdown, budget, last_call>>

\* the decisions decide() can return, turn and intensity in thousandths
Turns == {-1000, 0, 1000}

Intensities == {-1000, 1000}

Decisions == [action : Actions, turn : Turns, intensity : Intensities]

\* an agent loop that drops the agents that are dead after their update
RECURSIVE UpdatedSurvivors(_)
UpdatedSurvivors(ags) ==
    IF ags = <<>> THEN {<<>>}
    ELSE {(IF is_alive(h) THEN <<h>> ELSE <<>>) \o t :
              h \in {AgentUpdate(Head(ags), d) : d \in Decisions},
              t \in UpdatedSurvivors(Tail(ags))}

\* the agents after `for agent in self.agents: agent.update()`, for every
\* decision each of them may take
RECURSIVE UpdatedAgents(_)
UpdatedAgents(ags) ==
    IF ags = <<>> THEN {<<>>}
    ELSE {<<h>> \o t : h \in {AgentUpdate(Head(ags), d) : d \in Decisions},
                       t \in UpdatedAgents(Tail(ags))}

\* `for agent in self.agents: agent.update()`
SimAgents ==
    /\ sim_pc = "agents"
    /\ agents' \in UpdatedAgents(agents)
    /\ sim_pc' = "release"
    /\ UNCHANGED <<grid_width, grid_height, running, tick_counter, data_lock,
                   food_sources, food_items, current_food_sources, bound_x,
                   bound_y, source_index, new_food_items, render_pc, render_view,
                   ticks_after_shutdown, budget, last_call>>

\* a tick whose sleep is inside the `with` block
SimReleaseKeepingLock ==
    /\ sim_pc = "release"
    /\ sim_pc' = "sleep"
    /\ UNCHANGED <<grid_width, grid_height, running, tick_counter, data_lock,
                   food_sources, food_items, current_food_sources, agents,
                   bound_x, bound_y, source_index, new_food_items, render_pc,
                   render_view, ticks_after_shutdown, budget, last_call>>

\* the end of the `with` block releases the lock; time.sleep(0.01) follows
SimRelease ==
    /\ sim_pc = "release"
    /\ data_lock' = "free"
    /\ sim_pc' = "sleep"
    /\ UNCHANGED <<grid_width, grid_height, running, tick_counter, food_sources,
                   food_items, current_food_sources, agents, bound_x, bound_y,
                   source_index, new_food_items, render_pc, render_view,
                   ticks_after_shutdown, budget, last_call>>

\* time.sleep(0.01) returns
SimSleep ==
    /\ sim_pc = "sleep"
    /\ sim_pc' = "while"
    /\ UNCHANGED <<grid_width, grid_height, running, tick_counter, data_lock,
                   food_sources, food_items, current_food_sources, agents,
                   bound_x, bound_y, source_index, new_food_items, render_pc,
                   render_view, ticks_after_shutdown, budget, last_call>>

(***************************************************************************)
(* environment.py -- render() and shutdown(), called by the main thread.   *)
(***************************************************************************)
\* what a read pass of render() looks at
WorldView == [food_sources |-> food_sources, food_items |-> food_items,
              agents |-> agents, tick_counter |-> tick_counter]

NoView == [food_sources |-> <<>>, food_items |-> <<>>, agents |-> <<>>,
           tick_counter |-> 0]

\* render(): `with self.data_lock:` entered, the grid cells are drawn
RenderAcquire ==
    /\ render_pc = "idle"
    /\ CanAcquire(data_lock)
    /\ data_lock' = "render"
    /\ render_pc' = "sources"
    /\ render_view' = WorldView
    /\ UNCHANGED <<grid_width, grid_height, running, tick_counter, food_sources,
                   food_items, current_food_sources, agents, bound_x, bound_y,
                   sim_pc, source_index, new_food_items, ticks_after_shutdown, budget,
                   last_call>>

\* render(): the loops over food_sources, food_items and agents, in turn
RenderDraw ==
    /\ render_pc \in {"sources", "items", "agents"}
    /\ render_pc' = CASE render_pc = "sources" -> "items"
                      [] render_pc = "items"   -> "agents"
                      [] render_pc = "agents"  -> "text"
    /\ UNCHANGED <<grid_width, grid_height, running, tick_counter, data_lock,
                   food_sources, food_items, current_food_sources, agents,
                   bound_x, bound_y, sim_pc, source_index, new_food_items,
                   render_view, ticks_after_shutdown, budget, last_call>>

\* render(): the texts are drawn and the `with` block ends
RenderRelease ==
    /\ render_pc = "text"
    /\ data_lock' = "free"
    /\ render_pc' = "idle"
    /\ render_view' = NoView
    /\ UNCHANGED <<grid_width, grid_height, running, tick_counter, food_sources,
                   food_items, current_food_sources, agents, bound_x, bound_y,
                   sim_pc, source_index, new_food_items, ticks_after_shutdown, budget,
                   last_call>>

\* shutdown(): self.running = False (the join that follows changes nothing)
Shutdown ==
    /\ running
    /\ running' = FALSE
    /\ UNCHANGED <<grid_width, grid_height, tick_counter, data_lock,
                   food_sources, food_items, current_food_sources, agents,
                   bound_x, bound_y, sim_pc, source_index, new_food_items,
                   render_pc, render_view, ticks_after_shutdown, budget, last_call>>

(***************************************************************************)
(* The world after Environment.__init__, and the same world some ticks     *)
(* later.                                                                  *)
(***************************************************************************)
\* range(5) of _spawn_initial_agents
NumAgents == 5

\* the body points _random_body_points may draw: each sums to 100
BodyPointChoices ==
    { [hp |-> 0, energy |-> 0, speed |-> 100, attack |-> 0, lifespan |-> 0,
       sight |-> 0, agility |-> 0],
      [hp |-> 16, energy |-> 9, speed |-> 25, attack |-> 4, lifespan |-> 36,
       sight |-> 1, agility |-> 9] }

\* the headings random.random() * 360.0 may draw
SpawnAngles == {0, 135, 270}

\* f applied n times to x (the first half is computed, once, before the
\* second half starts from it)
RECURSIVE Iterate(_, _, _)
Iterate(f(_), x, n) ==
    IF n <= 0 THEN x
    ELSE IF n = 1 THEN f(x)
    ELSE Only({Iterate(f, half, n - n \div 2) : half \in {Iterate(f, x, n \div 2)}})

\* Environment._spawn_initial_agents: the agents it may build for bounds
\* pw, ph (random.randint includes both ends)
SpawnChoices(pw, ph) ==
    {NewAgent(<<px, py>>, ang, body) :
        px \in 0..pw, py \in 0..ph, ang \in SpawnAngles, body \in BodyPointChoices}

\* Environment._spawn_initial_agents: one list it may build
ExampleSpawn(pw, ph) ==
    [i \in 1..NumAgents |->
        NewAgent(<<IF i % 2 = 0 THEN pw ELSE 0, IF i % 3 = 0 THEN ph ELSE 0>>,
                 (i * 75) % 360,
                 CHOOSE b \in BodyPointChoices : (i % 2 = 0) = (b.speed = 100))]

\* a world: what a tick reads and writes
World(sources, items, counters, ags) ==
    [food_sources |-> sources, food_items |-> items,
     current_food_sources |-> counters, agents |-> ags]

\* the loop over the sources, from position i on, of a tick in which
\* nothing expands and every random drop draws `drop`
RECURSIVE PlainSources(_, _, _, _)
PlainSources(w, i, new_items, drop) ==
    IF i > Len(w.food_sources)
    THEN [w EXCEPT !.food_items = w.food_items \o new_items]
    ELSE LET step(u) ==
                 LET s == u.source
                     w1 == [w EXCEPT !.food_sources[i] = s,
                                     !.current_food_sources = u.counters]
                 IN  IF s.is_destroyed
                     THEN [w1 EXCEPT !.food_items = SelectSeq(w.food_items,
                                        LAMBDA f : <<f.x, f.y>> # <<s.x, s.y>>)]
                     ELSE w1
             items(u) ==
                 IF ~u.source.is_destroyed /\ u.result.kind = "Food"
                 THEN Append(new_items, u.result)
                 ELSE new_items
         IN  Only({PlainSources(p[1], i + 1, p[2], drop) :
                   p \in {<<step(u), items(u)>> :
                          u \in {SourceUpdate(w.food_sources[i],
                                              w.current_food_sources, drop)}}})

\* a whole tick of _simulation_loop in which nothing expands, every random
\* drop draws `drop` and every agent idles; bx, by in position units
PlainTick(w, bx, by, drop) ==
    LET resting == [action |-> ACTION_IDLE, turn |-> 0, intensity |-> 0]
        rest(w1) ==
            Only({ [w1 EXCEPT
                      !.food_items =
                          [i \in 1..Len(food_to_keep) |-> FoodAged(food_to_keep[i])],
                      !.agents =
                          [i \in 1..Len(w1.agents) |->
                              update(w1.agents[i], bx, by, resting)]] :
                   food_to_keep \in
                       {SelectSeq(w1.food_items, LAMBDA f : ~FoodExpired(f))} })
    IN  Only({rest(w1) : w1 \in {PlainSources(w, 1, <<>>, drop)}})

\* Environment.__init__(w, h, pw, ph): the world it builds
Constructed(w, h, pw, ph) ==
    World(spawn_initial_food_sources(w, h), <<>>,
          [a \in AreaIds |-> InitialFoodSourceCount], ExampleSpawn(pw, ph))

\* the world built by Environment(w, h, pw, ph) after k ticks without a
\* random drop and then `drops` ticks in which every BerryBush drops
WorldAfter(w, h, pw, ph, k, drops) ==
    LET quiet(x) == PlainTick(x, pw * PositionUnit, ph * PositionUnit, FALSE)
        dropping(x) == PlainTick(x, pw * PositionUnit, ph * PositionUnit, TRUE)
    IN  Iterate(dropping, Iterate(quiet, Constructed(w, h, pw, ph), k), drops)

\* the program's state with the simulation thread between two ticks and the
\* main thread outside render()
BetweenTicks(world, w, h, pw, ph, ticks, left) ==
    /\ grid_width = w
    /\ grid_height = h
    /\ running = TRUE
    /\ tick_counter = ticks
    /\ data_lock = "free"
    /\ food_sources = world.food_sources
    /\ food_items = world.food_items
    /\ current_food_sources = world.current_food_sources
    /\ bound_x = pw
    /\ bound_y = ph
    /\ agents = world.agents
    /\ sim_pc = "while"
    /\ source_index = 1
    /\ new_food_items = <<>>
    /\ render_pc = "idle"
    /\ render_view = NoView
    /\ ticks_after_shutdown = 0
    /\ budget = left
    /\ last_call = NoCall

\* the draws of the expansion step: random.random() < expansion_chance
\* fails, or it succeeds and random.randint(-3, 3) gives dx and dy
ExpansionDraws ==
    {[expand |-> FALSE, dx |-> 0, dy |-> 0]}
    \cup {[expand |-> TRUE, dx |-> dx, dy |-> dy] : dx \in -3..3, dy \in -3..3}

SimNext ==
    \/ SimWhile
    \/ SimAcquire
    \/ \E drop \in BOOLEAN, e \in ExpansionDraws :
           SimSource(drop, e.expand, e.dx, e.dy)
    \/ SimFoodItems
    \/ SimAgents
    \/ SimRelease
    \/ SimSleep

\* the simulation thread when the expansion step draws from `draws` only
SimTick(draws) ==
    \/ SimWhile
    \/ SimAcquire
    \/ \E drop \in BOOLEAN, e \in draws : SimSource(drop, e.expand, e.dx, e.dy)
    \/ SimFoodItems
    \/ SimAgents
    \/ SimRelease
    \/ SimSleep

\* expansion draws that fail, or succeed with a step to the cell on the
\* left or on the right
NearDraws ==
    {e \in ExpansionDraws : ~e.expand \/ (e.dy = 0 /\ e.dx \in {-1, 1})}

\* expansion draws that fail, or succeed with a step to the cell on the right
RightDraws ==
    {e \in ExpansionDraws : ~e.expand \/ (e.dy = 0 /\ e.dx = 1)}

\* the simulation thread when no BerryBush draws a drop and the expansion
\* step draws from `draws` only
SimGrowing(draws) ==
    \/ SimWhile
    \/ SimAcquire
    \/ \E e \in draws : SimSource(FALSE, e.expand, e.dx, e.dy)
    \/ SimFoodItems
    \/ SimAgents
    \/ SimRelease
    \/ SimSleep

\* expansion draws that fail, or succeed with a step to the cell on the left
LeftDraws ==
    {e \in ExpansionDraws : ~e.expand \/ (e.dy = 0 /\ e.dx = -1)}

RenderNext == RenderAcquire \/ RenderDraw \/ RenderRelease

Next == SimNext \/ RenderNext \/ Shutdown

(***************************************************************************)
(* Spec: the simulation thread and a render() caller on a world of 4 x 3   *)
(* cells (one BerryBush, in the Berry Corner), picked up after 998 ticks,  *)
(* the last of which dropped a Food: every agent has died of age, the bush *)
(* still drops and expands.                                                *)
(***************************************************************************)
Init == BetweenTicks(WorldAfter(4, 3, 2, 2, 997, 1), 4, 3, 2, 2, 998, GrowthTicks)

Spec == Init /\ [][SimNext \/ RenderNext]_vars

(***************************************************************************)
(* SpecShutdown: the two threads and shutdown() on that world one tick     *)
(* later, after a tick in which the bush dropped a Food: the bush reaches  *)
(* its lifespan in the next tick (tick 1000).  FairShutdown adds the       *)
(* scheduling: a thread that can step does, and a thread that asks for the *)
(* lock again and again gets it.                                           *)
(***************************************************************************)
InitShutdown ==
    BetweenTicks(WorldAfter(4, 3, 2, 2, 998, 1), 4, 3, 2, 2, 999, MaxTicks)

SpecShutdown == InitShutdown /\ [][Next]_vars

FairShutdown ==
    /\ SpecShutdown
    /\ WF_vars(SimNext)
    /\ SF_vars(SimAcquire)
    /\ WF_vars(RenderDraw \/ RenderRelease)

\* FairShutdown with a main loop that calls render() again and again and
\* gets the lock when it is free again and again
FairLock == FairShutdown /\ SF_vars(RenderAcquire)

(***************************************************************************)
(* SpecWorld: the simulation thread alone on a world of 5 x 3 cells (one   *)
(* BerryBush in a Berry Corner of six cells), picked up after 998 ticks.   *)
(***************************************************************************)
InitWorld == BetweenTicks(WorldAfter(5, 3, 2, 2, 998, 0), 5, 3, 2, 2, 998, GrowthTicks)

SpecWorld == InitWorld /\ [][SimNext]_vars

(***************************************************************************)
(* SpecRegrow: the simulation thread on the 4 x 3 world from tick 998 on,  *)
(* over the ticks in which the bush clones itself into the next cell,      *)
(* reaches its lifespan, and the clone grows back into the bush's cell.    *)
(***************************************************************************)
InitRegrow ==
    BetweenTicks(WorldAfter(4, 3, 2, 2, 998, 0), 4, 3, 2, 2, 998, RegrowTicks)

SpecRegrow == InitRegrow /\ [][SimTick(NearDraws)]_vars

(***************************************************************************)
(* SpecGrow: the simulation thread on worlds of several sizes, picked up   *)
(* after 300 ticks (every agent has died of age, no source has expanded    *)
(* yet), with expansions to the cell on the left and no random drop.  The  *)
(* world of 10 x 10 cells, with two initial sources in each area, is       *)
(* followed for one tick.                                                  *)
(***************************************************************************)
GridChoices == {<<4, 3>>, <<5, 3>>, <<6, 6>>, <<10, 10>>}

InitGrow ==
    \E g \in GridChoices :
        BetweenTicks(WorldAfter(g[1], g[2], 2, 2, 300, 0), g[1], g[2], 2, 2, 300,
                     IF g[1] * g[2] > 36 THEN 1 ELSE GrowTicks)

SpecGrow == InitGrow /\ [][SimGrowing(LeftDraws)]_vars

(***************************************************************************)
(* SpecAging: the two threads on a world of 6 x 6 cells (one source of     *)
(* each variant) from tick 598 on: the oldest Food of the grass patch      *)
(* expires in tick 599 and the patch emits again in tick 600.              *)
(***************************************************************************)
InitAging ==
    BetweenTicks(WorldAfter(6, 6, 2, 2, 598, 0), 6, 6, 2, 2, 598, AgingTicks)

SpecAging == InitAging /\ [][SimTick(RightDraws) \/ RenderNext]_vars

(***************************************************************************)
(* Calls on single objects: the objects sit in the world's lists as in a   *)
(* unit test, no thread runs, and last_call records each call.             *)
(***************************************************************************)
Bench(sources, items, counters, ags, pw, ph, left) ==
    /\ grid_width = 0
    /\ grid_height = 0
    /\ running = FALSE
    /\ tick_counter = 0
    /\ data_lock = "free"
    /\ food_sources = sources
    /\ food_items = items
    /\ current_food_sources = counters
    /\ bound_x = pw
    /\ bound_y = ph
    /\ agents = ags
    /\ sim_pc = "none"
    /\ source_index = 1
    /\ new_food_items = <<>>
    /\ render_pc = "none"
    /\ render_view = NoView
    /\ ticks_after_shutdown = 0
    /\ budget = left
    /\ last_call = NoCall

NoCounters == [a \in AreaIds |-> InitialFoodSourceCount]

\* food.update() on the i-th Food
FoodUpdateCall(i) ==
    /\ i \in 1..Len(food_items)
    /\ food_items[i].age < food_items[i].expiry_time + ExtraUpdates
    /\ food_items' = [food_items EXCEPT ![i] = FoodAged(food_items[i])]
    /\ last_call' = [op |-> "Food.update", index |-> i, before |-> food_items[i],
                     result |-> FoodExpired(food_items[i])]
    /\ UNCHANGED <<grid_width, grid_height, running, tick_counter, data_lock,
                   food_sources, current_food_sources, agents, bound_x, bound_y,
                   sim_pc, source_index, new_food_items, render_pc, render_view,
                   ticks_after_shutdown, budget>>

\* source.update() on the i-th food source; drop is the draw of a BerryBush
SourceUpdateCall(i, drop) ==
    /\ i \in 1..Len(food_sources)
    /\ food_sources[i].age < food_sources[i].lifespan + ExtraUpdates
    /\ LET u == SourceUpdate(food_sources[i], current_food_sources, drop)
       IN  /\ food_sources' = [food_sources EXCEPT ![i] = u.source]
           /\ current_food_sources' = u.counters
           /\ last_call' = [op |-> "FoodSource.update", index |-> i,
                            before |-> food_sources[i], result |-> u.result,
                            counter_before |-> current_food_sources[food_sources[i].area]]
    /\ UNCHANGED <<grid_width, grid_height, running, tick_counter, data_lock,
                   food_items, agents, bound_x, bound_y, sim_pc, source_index,
                   new_food_items, render_pc, render_view, ticks_after_shutdown,
                   budget>>

\* source.destroy() on the i-th food source
DestroyCall(i) ==
    /\ i \in 1..Len(food_sources)
    /\ food_sources' = [food_sources EXCEPT ![i] = DestroySource(food_sources[i])]
    /\ current_food_sources' = DestroyCounter(food_sources[i], current_food_sources)
    /\ last_call' = [op |-> "FoodSource.destroy", index |-> i,
                     before |-> food_sources[i],
                     counter_before |-> current_food_sources[food_sources[i].area]]
    /\ UNCHANGED <<grid_width, grid_height, running, tick_counter, data_lock,
                   food_items, agents, bound_x, bound_y, sim_pc, source_index,
                   new_food_items, render_pc, render_view, ticks_after_shutdown,
                   budget>>

\* the part of an agent's life the model follows: its first and its last
\* AgentUpdates updates (a dead agent's update is followed always)
InWindow(a) ==
    \/ ~is_alive(a)
    \/ a.age < AgentUpdates
    \/ a.age + AgentUpdates >= a.max_age /\ a.age < a.max_age + ExtraUpdates

\* agent.update() on the i-th agent, decide() returning d
AgentUpdateCall(i, d) ==
    /\ i \in 1..Len(agents)
    /\ InWindow(agents[i])
    /\ agents' = [agents EXCEPT ![i] = AgentUpdate(agents[i], d)]
    /\ last_call' = [op |-> "Agent.update", index |-> i, before |-> agents[i]]
    /\ UNCHANGED <<grid_width, grid_height, running, tick_counter, data_lock,
                   food_sources, food_items, current_food_sources, bound_x,
                   bound_y, sim_pc, source_index, new_food_items, render_pc,
                   render_view, ticks_after_shutdown, budget>>

\* agent._apply_bounds(new_x, new_y, new_angle) on the i-th agent
ApplyBoundsCall(i, new_x, new_y, new_angle) ==
    /\ i \in 1..Len(agents)
    /\ LET b == apply_bounds(bound_x * PositionUnit, bound_y * PositionUnit,
                             new_x, new_y, new_angle)
       IN  agents' = [agents EXCEPT ![i].x = b.x, ![i].y = b.y, ![i].angle = b.angle]
    /\ last_call' = [op |-> "Agent._apply_bounds", index |-> i,
                     new_x |-> new_x, new_y |-> new_y, new_angle |-> new_angle]
    /\ UNCHANGED <<grid_width, grid_height, running, tick_counter, data_lock,
                   food_sources, food_items, current_food_sources, bound_x,
                   bound_y, sim_pc, source_index, new_food_items, render_pc,
                   render_view, ticks_after_shutdown, budget>>

\* agent.think(inputs) followed by agent.decide(outputs) on the i-th agent
DecideCall(i, inputs) ==
    /\ i \in 1..Len(agents)
    /\ last_call' = [op |-> "Agent.decide", index |-> i, inputs |-> inputs,
                     result |-> decide(think(agents[i], inputs))]
    /\ UNCHANGED agents
    /\ UNCHANGED <<grid_width, grid_height, running, tick_counter, data_lock,
                   food_sources, food_items, current_food_sources, bound_x,
                   bound_y, sim_pc, source_index, new_food_items, render_pc,
                   render_view, ticks_after_shutdown, budget>>

\* agent.decide(outputs) on the i-th agent
DecideOutputsCall(i, outputs) ==
    /\ i \in 1..Len(agents)
    /\ last_call' = [op |-> "Agent.decide", index |-> i, outputs |-> outputs,
                     result |-> decide(outputs)]
    /\ UNCHANGED <<grid_width, grid_height, running, tick_counter, data_lock,
                   food_sources, food_items, current_food_sources, agents,
                   bound_x, bound_y, sim_pc, source_index, new_food_items,
                   render_pc, render_view, ticks_after_shutdown, budget>>

\* agent.sense(self.food_items) on the i-th agent that has no target yet
SenseCall(i) ==
    /\ i \in 1..Len(agents)
    /\ agents[i].last_target = <<>>
    /\ LET foods == [k \in 1..Len(food_items) |->
                        <<food_items[k].x * PositionUnit,
                          food_items[k].y * PositionUnit>>]
           sensed == sense(agents[i], bound_x, bound_y, foods, <<>>)
       IN  agents' = [agents EXCEPT ![i].last_target = sensed.last_target]
    /\ last_call' = [op |-> "Agent.sense", index |-> i, before |-> agents[i]]
    /\ UNCHANGED <<grid_width, grid_height, running, tick_counter, data_lock,
                   food_sources, food_items, current_food_sources, bound_x,
                   bound_y, sim_pc, source_index, new_food_items, render_pc,
                   render_view, ticks_after_shutdown, budget>>

\* agent.set_inputs(inputs) on the i-th agent
SetInputsCall(i, inputs) ==
    /\ i \in 1..Len(agents)
    /\ agents' = [agents EXCEPT ![i] = set_inputs(agents[i], inputs).agent]
    /\ last_call' = [op |-> "Agent.set_inputs", index |-> i, before |-> agents[i],
                     argument |-> inputs,
                     raised |-> set_inputs(agents[i], inputs).raised]
    /\ UNCHANGED <<grid_width, grid_height, running, tick_counter, data_lock,
                   food_sources, food_items, current_food_sources, bound_x,
                   bound_y, sim_pc, source_index, new_food_items, render_pc,
                   render_view, ticks_after_shutdown, budget>>

\* agent.update() on the i-th agent, deciding from what it senses
SensingUpdateCall(i) ==
    /\ i \in 1..Len(agents)
    /\ InWindow(agents[i])
    /\ agents' = [agents EXCEPT ![i] = update_sensing(agents[i], bound_x, bound_y)]
    /\ last_call' = [op |-> "Agent.update", index |-> i, before |-> agents[i]]
    /\ UNCHANGED <<grid_width, grid_height, running, tick_counter, data_lock,
                   food_sources, food_items, current_food_sources, bound_x,
                   bound_y, sim_pc, source_index, new_food_items, render_pc,
                   render_view, ticks_after_shutdown, budget>>

(***************************************************************************)
(* SpecFood: one Food of each variant, as its source emits it, updated     *)
(* until past its expiry.                                                  *)
(***************************************************************************)
\* the area each variant is planted in by _spawn_initial_food_sources
HomeArea(cls) ==
    CASE cls = "SimpleGrassPatch" -> 1
      [] cls = "FertileFruitTree" -> 2
      [] cls = "CactusPads"       -> 3
      [] OTHER                    -> 4

InitFood ==
    \E cls \in Classes :
        Bench(<<>>, <<Emitted(NewFoodSource(cls, 2, 2, HomeArea(cls)))>>,
              NoCounters, <<>>, 0, 0, 0)

NextFood == \E i \in 1..Len(food_items) : FoodUpdateCall(i)

SpecFood == InitFood /\ [][NextFood]_vars

(***************************************************************************)
(* SpecSource: one new source of any variant, in its area after two        *)
(* expansions there, updated until past its lifespan.  destroy() may be    *)
(* called in its first and its last SourceUpdates updates, and the draws   *)
(* of a BerryBush are followed in its first and last DropUpdates updates   *)
(* (in between it draws no drop).                                          *)
(***************************************************************************)
\* the live counters of areas in which two expansions have succeeded
TwoClones == [a \in AreaIds |-> 2]

InitSource ==
    \E cls \in Classes :
        Bench(<<NewFoodSource(cls, 2, 2, HomeArea(cls))>>, <<>>, TwoClones,
              <<>>, 0, 0, 0)

\* the draws random.random() < random_drop_chance followed for s
DropDraws(s) ==
    IF s.cls = "BerryBush" /\ (s.age < DropUpdates \/ s.age + DropUpdates >= s.lifespan)
    THEN BOOLEAN
    ELSE {FALSE}

\* the updates in which an explicit destroy() of s is followed
DestroyWindow(s) == s.age < SourceUpdates \/ s.age + SourceUpdates >= s.lifespan

\* the updates followed on s: all of a living source, those of a destroyed
\* one until ExtraUpdates past the windows of destroy()
UpdateWindow(s) ==
    \/ ~s.is_destroyed
    \/ s.age < SourceUpdates + ExtraUpdates
    \/ s.age + SourceUpdates >= s.lifespan

UpdateSource ==
    \E i \in 1..Len(food_sources) :
        /\ UpdateWindow(food_sources[i])
        /\ \E drop \in DropDraws(food_sources[i]) : SourceUpdateCall(i, drop)

DestroyEarlyOrLate ==
    \E i \in 1..Len(food_sources) :
        DestroyWindow(food_sources[i]) /\ DestroyCall(i)

NextSource == UpdateSource \/ DestroyEarlyOrLate

SpecSource == InitSource /\ [][NextSource]_vars

\* the tick loop is fair: the update of a source is not put off forever
FairSource == SpecSource /\ WF_vars(UpdateSource)

(***************************************************************************)
(* SpecDestroy: the eight sources of a new 10 x 10 world, destroyed in any *)
(* order and any number of times.                                          *)
(***************************************************************************)
InitDestroy ==
    Bench(spawn_initial_food_sources(10, 10), <<>>, NoCounters, <<>>, 0, 0, 0)

NextDestroy == \E i \in 1..Len(food_sources) : DestroyCall(i)

SpecDestroy == InitDestroy /\ [][NextDestroy]_vars

(***************************************************************************)
(* SpecAgent: one agent of a 1 x 1 world, new or after a life of resting   *)
(* or of attacking, updated with any decision.                             *)
(***************************************************************************)
\* the decisions an agent repeated before the model picks it up
Habits == {[action |-> ACTION_IDLE, turn |-> 0, intensity |-> 0],
           [action |-> ACTION_ATTACK, turn |-> 0, intensity |-> 0]}

\* agent a after n updates with the same decision d
Habitual(a, bx, by, d, n) ==
    LET step(b) == update(b, bx * PositionUnit, by * PositionUnit, d)
    IN  Iterate(step, a, n)

InitAgent ==
    \E a \in SpawnChoices(1, 1) :
        \/ Bench(<<>>, <<>>, NoCounters, <<a>>, 1, 1, 0)
        \/ \E d \in Habits :
              Bench(<<>>, <<>>, NoCounters,
                    <<Habitual(a, 1, 1, d, a.max_age - AgentUpdates)>>, 1, 1, 0)

NextAgent == \E i \in 1..Len(agents), d \in Decisions : AgentUpdateCall(i, d)

SpecAgent == InitAgent /\ [][NextAgent]_vars

(***************************************************************************)
(* SpecDecide: decide() of a new agent on every output vector over three   *)
(* values, ties included.                                                  *)
(***************************************************************************)
\* values of tanh, in thousandths
OutputValues == {-1000, 0, 1000}

OutputChoices == [1..output_size -> OutputValues]

InitDecide ==
    Bench(<<>>, <<>>, NoCounters, <<ExampleSpawn(2, 2)[1]>>, 2, 2, 0)

\* one call per behaviour: decide() reads nothing but its argument
NextDecide ==
    /\ last_call = NoCall
    /\ \E i \in 1..Len(agents), outputs \in OutputChoices :
          DecideOutputsCall(i, outputs)

SpecDecide == InitDecide /\ [][NextDecide]_vars

(***************************************************************************)
(* SpecActs: two new agents among the food sources of a 6 x 6 world and a  *)
(* Food, updated in any order with any decision, AgentUpdates updates in   *)
(* all.                                                                    *)
(***************************************************************************)
InitActs ==
    Bench(spawn_initial_food_sources(6, 6),
          <<Emitted(NewFoodSource("BerryBush", 4, 4, 4))>>, TwoClones,
          SubSeq(ExampleSpawn(2, 2), 1, 2), 2, 2, 0)

NextActs ==
    /\ agents[1].age + agents[2].age < AgentUpdates
    /\ \E i \in 1..Len(agents) :
          \E d \in Decisions : AgentUpdateCall(i, d)

SpecActs == InitActs /\ [][NextActs]_vars

(***************************************************************************)
(* SpecHeading: one new agent in a 2 x 2 world and a Food on one of three  *)
(* cells; sense(food_items) may be called on the agent before its first    *)
(* update, which gives it the target FLEE turns away from; AgentUpdates    *)
(* updates at full intensity follow.                                       *)
(***************************************************************************)
HeadingDecisions == {d \in Decisions : d.intensity = 1000}

TargetCells == {<<4, 4>>, <<1, 0>>, <<0, 3>>}

InitHeading ==
    \E k \in 1..2, c \in TargetCells :
        Bench(<<>>, <<Emitted(NewFoodSource("BerryBush", c[1], c[2], 4))>>,
              NoCounters, <<ExampleSpawn(2, 2)[k]>>, 2, 2, 0)

NextHeading ==
    \E i \in 1..Len(agents) :
        \/ \E d \in HeadingDecisions : AgentUpdateCall(i, d)
        \/ agents[i].age = 0 /\ SenseCall(i)

SpecHeading == InitHeading /\ [][NextHeading]_vars

(***************************************************************************)
(* SpecLife: one new agent updated until it is dead, with any decision in  *)
(* its first update and the same action (turn 0, full intensity) in all    *)
(* the later ones.  FairLife: the tick loop goes on updating it.           *)
(***************************************************************************)
LifeDecisions(a) ==
    IF a.age = 0 THEN Decisions
    ELSE {[action |-> a.last_action, turn |-> 0, intensity |-> 1000]}

InitLife ==
    \E k \in 1..2 : Bench(<<>>, <<>>, NoCounters, <<ExampleSpawn(2, 2)[k]>>, 2, 2, 0)

NextLife ==
    \E i \in 1..Len(agents) : \E d \in LifeDecisions(agents[i]) :
        /\ agents' = [agents EXCEPT ![i] = AgentUpdate(agents[i], d)]
        /\ last_call' = [op |-> "Agent.update", index |-> i, before |-> agents[i]]
        /\ UNCHANGED <<grid_width, grid_height, running, tick_counter, data_lock,
                       food_sources, food_items, current_food_sources, bound_x,
                       bound_y, sim_pc, source_index, new_food_items, render_pc,
                       render_view, ticks_after_shutdown, budget>>

SpecLife == InitLife /\ [][NextLife]_vars

FairLife == SpecLife /\ WF_vars(NextLife)

(***************************************************************************)
(* SpecBounds: _apply_bounds on candidates in range, on the walls and      *)
(* beyond them, in worlds with and without positive bounds.                *)
(***************************************************************************)
BoundsChoices == {<<100, 50>>, <<0, 50>>, <<100, 0>>}

\* candidate coordinates around a bound given in whole units
Candidates(bound) ==
    LET b == bound * PositionUnit
    IN  {-(3 * b) \div 2, -2500000, -1, 0, b \div 2, b - 1, b, b + 1500000,
         (5 * b) \div 2}

CandidateAngles == {-20, 0, 30, 180, 200, 359, 380}

InitBounds ==
    \E b \in BoundsChoices :
        Bench(<<>>, <<>>, NoCounters, <<ExampleSpawn(0, 0)[1]>>, b[1], b[2], 0)

NextBounds ==
    \E i \in 1..Len(agents), new_x \in Candidates(bound_x),
       new_y \in Candidates(bound_y), new_angle \in CandidateAngles :
        ApplyBoundsCall(i, new_x, new_y, new_angle)

SpecBounds == InitBounds /\ [][NextBounds]_vars

(***************************************************************************)
(* SpecMind: one agent with either weight matrix in a 2 x 2 world that     *)
(* holds a Food, asked to decide, given input overrides and updated.       *)
(***************************************************************************)
\* input vectors of the right length, in thousandths
InputChoices ==
    {[i \in 1..input_size |-> 1000],
     [i \in 1..input_size |-> i * 125 - 1000],
     [i \in 1..input_size |-> IF i % 2 = 0 THEN 700 ELSE -300]}

\* vectors of a wrong length: one short, one long, empty
WrongInputs ==
    {[i \in 1..(input_size - 1) |-> 1000],
     [i \in 1..(input_size + 1) |-> 1000],
     <<>>}

SetInputsArguments ==
    {NoInputs} \cup {Inputs(v) : v \in InputChoices \cup WrongInputs}

InitMind ==
    \E w \in WChoices, k \in 1..2 :
        Bench(<<>>, <<Emitted(NewFoodSource("BerryBush", 1, 1, 4))>>,
              NoCounters, <<[ExampleSpawn(2, 2)[k] EXCEPT !.W = w]>>, 2, 2, 0)

NextMind ==
    \E i \in 1..Len(agents) :
        \/ \E inputs \in InputChoices : DecideCall(i, Inputs(inputs).vector)
        \/ \E inputs \in SetInputsArguments : SetInputsCall(i, inputs)
        \/ SensingUpdateCall(i)

SpecMind == InitMind /\ [][NextMind]_vars

(***************************************************************************)
(* Claims about the lock and the loop.                                     *)
(***************************************************************************)
\* C1: while a render() caller holds data_lock the simulation thread is not
\* inside a tick, and food_items and food_sources are what they were when
\* the caller took the lock.
C1_ReaderSeesNoTick ==
    render_pc \in InRender =>
        /\ sim_pc \notin InTick
        /\ food_items = render_view.food_items
        /\ food_sources = render_view.food_sources

\* C1 witness: a reader is in the middle of its pass over a non-empty
\* food_items while the simulation thread waits for the lock to run a tick.
C1_Witness ==
    /\ render_pc = "items"
    /\ sim_pc = "acquire"
    /\ data_lock = "render"
    /\ Len(food_items) > 0

\* C6: after shutdown() at most one further tick begins; a tick that has
\* begun is never cut short (the loop ends only from its `while` test) and
\* runs to its end; and once running is False the loop terminates.
C6_CooperativeShutdown ==
    /\ [](ticks_after_shutdown <= 1)
    /\ [][(sim_pc # "done" /\ sim_pc' = "done") => (sim_pc = "while" /\ ~running)]_vars
    /\ [][(sim_pc \in InTick /\ sim_pc' \notin InTick) => (sim_pc' = "sleep")]_vars
    /\ (sim_pc \in InTick ~> sim_pc = "sleep")
    /\ (~running ~> sim_pc = "done")

\* C6 witness: shutdown() came after the `while` test; one more tick ran,
\* pruned the Food of the bush that reached its lifespan, and the loop ended.
C6_Witness ==
    /\ ticks_after_shutdown = 1
    /\ sim_pc = "done"
    /\ food_items = <<>>
    /\ food_sources[1].is_destroyed

(***************************************************************************)
(* Claims about agents.                                                    *)
(***************************************************************************)
\* C2: every agent has 0 <= hp <= max_hp, 0 <= energy <= max_energy and
\* age <= max_age; an agent whose age has reached max_age has hp 0; and an
\* update() of an agent with hp 0 leaves the agent as it was.
C2_AgentVitals ==
    \A i \in 1..Len(agents) :
        LET a == agents[i]
        IN  /\ 0 <= a.hp /\ a.hp <= a.max_hp
            /\ 0 <= a.energy /\ a.energy <= a.max_energy
            /\ a.age <= a.max_age
            /\ a.age >= a.max_age => a.hp = 0
            /\ (last_call.op = "Agent.update" /\ last_call.index = i
                    /\ last_call.before.hp <= 0) => a = last_call.before

\* C2 witness: an update() took a living agent to max_age, and it died.
C2_Witness ==
    /\ last_call.op = "Agent.update"
    /\ last_call.before.hp > 0
    /\ last_call.before.age + 1 = agents[1].age
    /\ agents[1].age = agents[1].max_age
    /\ agents[1].hp = 0

\* C9: with positive bounds every agent has 0 <= x < bound_x and
\* 0 <= y < bound_y, at spawn and after every update().
C9_AgentInsideBounds ==
    (bound_x > 0 /\ bound_y > 0) =>
        \A i \in 1..Len(agents) :
            /\ 0 <= agents[i].x /\ agents[i].x < bound_x * PositionUnit
            /\ 0 <= agents[i].y /\ agents[i].y < bound_y * PositionUnit

\* what _apply_bounds does to one coordinate when it mirrors about `wall`
MirroredAbout(c, bound, wall) ==
    IF c < 0 THEN -c ELSE IF c >= bound THEN 2 * wall - c ELSE c

\* the heading after the walls crossed by candidate (nx, ny) turned it
Turned(nx, ny, bx, by, angle) ==
    LET after_x == IF nx < 0 \/ nx >= bx THEN 180 - angle ELSE angle
    IN  IF ny < 0 \/ ny >= by THEN (-after_x) % 360 ELSE after_x % 360

\* C10: with both bounds positive, _apply_bounds mirrors a candidate below 0
\* about 0 and a candidate at or beyond the bound about bound - 1e-6, turns
\* the heading to 180 - angle at an x wall and then to -angle at a y wall
\* (mod 360), and clamps the position into [0, bound - 1e-6]; with a bound
\* that is not positive it takes the candidate as it is, heading mod 360.
C10_ReflectAtWalls ==
    last_call.op = "Agent._apply_bounds" =>
        LET a == agents[last_call.index]
            bx == bound_x * PositionUnit
            by == bound_y * PositionUnit
            nx == last_call.new_x
            ny == last_call.new_y
        IN  IF bound_x > 0 /\ bound_y > 0
            THEN /\ a.x = clamp(MirroredAbout(nx, bx, bx - Epsilon), 0, bx - Epsilon)
                 /\ a.y = clamp(MirroredAbout(ny, by, by - Epsilon), 0, by - Epsilon)
                 /\ a.angle = Turned(nx, ny, bx, by, last_call.new_angle)
            ELSE /\ a.x = nx
                 /\ a.y = ny
                 /\ a.angle = last_call.new_angle % 360

\* C10 as written: the candidate is mirrored about the wall it crossed, 0 or
\* the bound itself, the heading turned, and the position clamped into range.
C10_MirrorAboutBound ==
    last_call.op = "Agent._apply_bounds" =>
        LET a == agents[last_call.index]
            bx == bound_x * PositionUnit
            by == bound_y * PositionUnit
            nx == last_call.new_x
            ny == last_call.new_y
        IN  /\ a.x = clamp(MirroredAbout(nx, bx, bx), 0, Max(0, bx - Epsilon))
            /\ a.y = clamp(MirroredAbout(ny, by, by), 0, Max(0, by - Epsilon))
            /\ a.angle = Turned(nx, ny, bx, by, last_call.new_angle)

\* C10 witness: a candidate 1.5 beyond the right wall and 2.5 above the top
\* one, heading 30, came back inside with heading 210.
C10_Witness ==
    /\ last_call.op = "Agent._apply_bounds"
    /\ bound_x = 100 /\ bound_y = 50
    /\ last_call.new_x = 101500000 /\ last_call.new_y = -2500000
    /\ last_call.new_angle = 30
    /\ agents[1].x = 98499998 /\ agents[1].y = 2500000
    /\ agents[1].angle = 210

(***************************************************************************)
(* Claims about Food and food sources.                                     *)
(***************************************************************************)
\* C8: Food.update() adds exactly one to age and returns True exactly when
\* the resulting age is at least expiry_time; with expiry_time 500 the
\* updates that reach ages 1..499 return False and the one that reaches 500
\* returns True.
C8_FoodExpiry ==
    last_call.op = "Food.update" =>
        LET f == food_items[last_call.index]
        IN  /\ f.age = last_call.before.age + 1
            /\ last_call.result = (f.age >= f.expiry_time)
            /\ f.expiry_time = 500 => (last_call.result = (f.age \notin 1..499))

\* C8 witness: the update that took a Food of expiry_time 500 from age 499
\* to age 500 returned True.
C8_Witness ==
    /\ last_call.op = "Food.update"
    /\ last_call.before.age = 499
    /\ food_items[1].expiry_time = 500
    /\ food_items[1].age = 500
    /\ last_call.result = TRUE

\* C7: a SimpleGrassPatch whose food_left stays >= 10 returns one Food from
\* its n-th update() (n is its age, a patch starts at age 0) exactly when n
\* is a multiple of 100 below its lifespan of 1000; every other update()
\* returns None.
C7_GrassEmitsEvery100 ==
    (/\ last_call.op = "FoodSource.update"
     /\ last_call.before.cls = "SimpleGrassPatch"
     /\ last_call.before.food_left >= 1000) =>
        LET s == food_sources[last_call.index]
            n == s.age
        IN  /\ n = last_call.before.age + 1
            /\ s.food_left >= 1000
            /\ (last_call.result # NoFood) = (n % 100 = 0 /\ n < s.lifespan)
            /\ last_call.result # NoFood =>
                   /\ last_call.result.kind = "Food"
                   /\ last_call.result.x = s.x /\ last_call.result.y = s.y
                   /\ last_call.result.expiry_time = 500
                   /\ last_call.result.age = 0

\* C7 witness: the 200th update() of a grass patch returned a Food.
C7_Witness ==
    /\ last_call.op = "FoodSource.update"
    /\ food_sources[1].cls = "SimpleGrassPatch"
    /\ food_sources[1].age = 200
    /\ last_call.result # NoFood

\* C3: destroy() on a source that is not destroyed lowers its area's
\* current_food_sources by exactly one, and destroy() on a destroyed source
\* leaves the counter as it is, for every source of the world, the ones
\* planted at initialisation included.
C3_DestroyDecrementsOnce ==
    last_call.op = "FoodSource.destroy" =>
        LET c == current_food_sources[last_call.before.area]
        IN  /\ food_sources[last_call.index].is_destroyed
            /\ c = IF last_call.before.is_destroyed
                   THEN last_call.counter_before
                   ELSE last_call.counter_before - 1

\* C4: whenever data_lock is free, each area's current_food_sources is the
\* number of sources in food_sources of that area that are not destroyed.
C4_CounterIsLiveSources ==
    data_lock = "free" =>
        \A a \in AreaIds : current_food_sources[a] = LiveSources(food_sources, a)

\* C5: no area ever holds more than max_food_sources sources that are not
\* destroyed.
C5_LiveSourcesWithinMax ==
    \A a \in AreaIds : LiveSources(food_sources, a) <= max_food_sources

(***************************************************************************)
(* Claims about what an agent senses and decides.                          *)
(***************************************************************************)
\* C11: no step changes an agent's W, and for every input vector think()
\* followed by decide() returns for the agent a step has changed what it
\* returned before the step, whatever the step was (an update, a set_inputs).
C11_DecisionStable ==
    [][\A i \in 1..Len(agents) :
          /\ agents'[i].W = agents[i].W
          /\ agents'[i] # agents[i] =>
                \A x \in InputChoices :
                    \A after \in {think(agents'[i], x)},
                       before \in {think(agents[i], x)} :
                        decide(after) = decide(before)]_vars

\* C11 witness: the agent is asked to decide after AgentUpdates updates that
\* used up energy, and answers as a new agent with its W would.
C11_Witness ==
    /\ last_call.op = "Agent.decide"
    /\ agents[1].age = AgentUpdates
    /\ agents[1].energy < agents[1].max_energy
    /\ \E k \in 1..2 :
          last_call.result =
              decide(think([ExampleSpawn(2, 2)[k] EXCEPT !.W = agents[1].W],
                           last_call.inputs))

\* C15: set_inputs(None) clears the override; a vector of input_size
\* numbers is stored; a vector of another length raises and leaves the
\* agent, its stored override included, as it was.
C15_SetInputs ==
    last_call.op = "Agent.set_inputs" =>
        LET a == agents[last_call.index]
            arg == last_call.argument
        IN  IF arg.none
            THEN ~last_call.raised /\ a.inputs_override = <<>>
            ELSE IF Len(arg.vector) = input_size
            THEN ~last_call.raised /\ a.inputs_override = arg.vector
            ELSE last_call.raised /\ a = last_call.before

\* C15 witness: a vector one short was refused while an override was stored,
\* and the override is still there.
C15_Witness ==
    /\ last_call.op = "Agent.set_inputs"
    /\ last_call.raised
    /\ Len(last_call.argument.vector) = input_size - 1
    /\ last_call.before.inputs_override \in InputChoices
    /\ agents[1].inputs_override = last_call.before.inputs_override

\* C14: an update() of a living agent without input override in a world
\* that holds Food takes the nearest-food features from that Food and sets
\* _last_target to it.
C14_UpdateSensesFood ==
    (/\ last_call.op = "Agent.update"
     /\ last_call.before.hp > 0
     /\ last_call.before.inputs_override = <<>>
     /\ food_items # <<>>) =>
        LET foods == [k \in 1..Len(food_items) |->
                        <<food_items[k].x * PositionUnit,
                          food_items[k].y * PositionUnit>>]
        IN  agents[last_call.index].last_target =
                sense(last_call.before, bound_x, bound_y, foods, <<>>).last_target

\* C13: a step leaves every agent with hp <= 0 exactly as it was, and no
\* step changes the length of agents.
C13_DeadAgentsStay ==
    [][/\ Len(agents') = Len(agents)
       /\ \A i \in 1..Len(agents) :
             agents[i].hp <= 0 => agents'[i] = agents[i]]_vars

\* C13 witness: the agent loop of a tick has run over five agents, all dead.
C13_Witness ==
    /\ sim_pc = "release"
    /\ Len(agents) = NumAgents
    /\ \A i \in 1..Len(agents) : agents[i].hp = 0 /\ agents[i].age = agents[i].max_age

(***************************************************************************)
(* Claims about the Food in the world.                                     *)
(***************************************************************************)
\* whether a source that is not destroyed stands at the position of f
ProducerAlive(f, sources) ==
    \E j \in 1..Len(sources) :
        /\ ~sources[j].is_destroyed
        /\ sources[j].x = f.x /\ sources[j].y = f.y

\* C12: a step takes a Food out of food_items only when the Food has
\* expired or no living source is left at its position; the Food of a
\* living source that has not expired stays (as it is, or one update older).
C12_FoodLeavesExpiredOrOrphaned ==
    [][\A k \in 1..Len(food_items) :
          LET f == food_items[k]
          IN  \/ FoodAged(f).age >= f.expiry_time
              \/ ~ProducerAlive(f, food_sources')
              \/ \E m \in 1..Len(food_items') :
                    food_items'[m] = f \/ food_items'[m] = FoodAged(f)]_vars

\* C18: whenever data_lock is free every Food in food_items has
\* 1 <= age < expiry_time.
C18_FoodAgesBetweenTicks ==
    data_lock = "free" =>
        \A k \in 1..Len(food_items) :
            /\ 1 <= food_items[k].age
            /\ food_items[k].age < food_items[k].expiry_time

\* C18 witness: after tick 600 the lock is free, the Food the grass patch
\* emitted in that tick has age 1 and its Food of tick 100 is gone.
C18_Witness ==
    /\ data_lock = "free"
    /\ sim_pc = "sleep"
    /\ tick_counter = 600
    /\ \E k \in 1..Len(food_items) :
          food_items[k].expiry_time = 500 /\ food_items[k].age = 1
    /\ \E k \in 1..Len(food_items) :
          food_items[k].expiry_time = 500 /\ food_items[k].age = 401
    /\ \A k \in 1..Len(food_items) :
          food_items[k].expiry_time = 500 => food_items[k].age <= 401

(***************************************************************************)
(* Claims about the life of a food source.                                 *)
(***************************************************************************)
\* what an update() of a source that was not destroyed does to is_destroyed,
\* and what updates at and after the lifespan return
LifespanRule ==
    /\ \A i \in 1..Len(food_sources) :
          food_sources[i].age >= food_sources[i].lifespan =>
              food_sources[i].is_destroyed
    /\ last_call.op = "FoodSource.update" =>
          LET s == food_sources[last_call.index]
              b == last_call.before
          IN  /\ s.age = b.age + 1
              /\ ~b.is_destroyed => (s.is_destroyed <=> s.age = s.lifespan)
              /\ s.age >= s.lifespan => last_call.result = NoFood

\* a source becomes destroyed only by destroy() or by the update() in which
\* its age reaches its lifespan
DestroyedOnlyAtLifespan ==
    \A i \in 1..Len(food_sources) :
        (~food_sources[i].is_destroyed /\ food_sources'[i].is_destroyed) =>
            \/ last_call'.op = "FoodSource.destroy"
            \/ /\ last_call'.op = "FoodSource.update"
               /\ food_sources'[i].age = food_sources[i].age + 1
               /\ food_sources'[i].age = food_sources[i].lifespan

AllDestroyed ==
    \A i \in 1..Len(food_sources) : food_sources[i].is_destroyed

\* C16: a source is destroyed exactly in the update() in which its age
\* reaches its lifespan (earlier only by destroy()), that update() and all
\* later ones return no Food, and when updates keep coming every source is
\* eventually destroyed.
C16_DestroyedAtLifespan ==
    /\ []LifespanRule
    /\ [][DestroyedOnlyAtLifespan]_vars
    /\ <>AllDestroyed

\* C16 witness: the 5000th update() of a cactus destroyed it and returned
\* no Food, with the counter at its interval and food_left above the cost.
C16_Witness ==
    /\ last_call.op = "FoodSource.update"
    /\ last_call.before.cls = "CactusPads"
    /\ ~last_call.before.is_destroyed
    /\ last_call.before.age = 4999
    /\ food_sources[1].is_destroyed
    /\ last_call.result = NoFood

\* C17: update() on a destroyed source of any variant returns no Food and
\* leaves food_left, tick_count, is_destroyed and the area's
\* current_food_sources as they were.
C17_DestroyedUpdateIsNoOp ==
    (last_call.op = "FoodSource.update" /\ last_call.before.is_destroyed) =>
        LET s == food_sources[last_call.index]
            b == last_call.before
        IN  /\ last_call.result = NoFood
            /\ s.food_left = b.food_left
            /\ s.tick_count = b.tick_count
            /\ s.is_destroyed
            /\ current_food_sources[b.area] = last_call.counter_before

\* C17 witness: a BerryBush that drew a drop was updated after its lifespan
\* had destroyed it, with food_left short of capacity and the area counter
\* at 1.
C17_Witness ==
    /\ last_call.op = "FoodSource.update"
    /\ last_call.before.is_destroyed
    /\ last_call.before.cls = "BerryBush"
    /\ last_call.before.age >= 1000
    /\ last_call.before.food_left < 4000
    /\ last_call.counter_before = 1

\* C19, as the code has it: an interval producer emits on an update() exactly
\* when it is not destroyed, its counter, one more than before the call, has
\* reached production_interval and its food_left after regeneration is at
\* least the cost; then the counter is 0 and food_left is the regenerated
\* value less the cost; otherwise, if not destroyed, nothing is emitted, the
\* counter is one more than before (it is not reset) and food_left is the
\* regenerated value.  The counter never exceeds the number of updates.
C19_IntervalEmission ==
    (last_call.op = "FoodSource.update" /\ last_call.before.cls \in IntervalClasses) =>
        LET s == food_sources[last_call.index]
            b == last_call.before
            r == Regenerated(b).food_left
            c == b.tick_count + 1
            emits == /\ ~s.is_destroyed
                     /\ c >= ProductionInterval(b.cls)
                     /\ r >= ProductionCost(b.cls)
        IN  /\ (last_call.result # NoFood) <=> emits
            /\ emits => s.tick_count = 0 /\ s.food_left = r - ProductionCost(b.cls)
            /\ (~s.is_destroyed /\ ~emits) => s.tick_count = c /\ s.food_left = r
            /\ s.tick_count <= s.age

\* C19 as stated: when food_left after regeneration is below the cost,
\* nothing is emitted and the counter keeps its value.
C19_CounterKeepsValue ==
    (/\ last_call.op = "FoodSource.update"
     /\ last_call.before.cls \in IntervalClasses
     /\ ~food_sources[last_call.index].is_destroyed
     /\ Regenerated(last_call.before).food_left < ProductionCost(last_call.before.cls)) =>
        /\ last_call.result = NoFood
        /\ food_sources[last_call.index].tick_count = last_call.before.tick_count

\* C19 witness: a cactus whose counter has passed its interval of 80 is
\* updated with food_left below the cost of 5: nothing is emitted and the
\* counter goes on counting.
C19_Witness ==
    /\ last_call.op = "FoodSource.update"
    /\ last_call.before.cls = "CactusPads"
    /\ ~food_sources[1].is_destroyed
    /\ last_call.before.tick_count >= 80
    /\ food_sources[1].food_left < 500
    /\ last_call.result = NoFood
    /\ food_sources[1].tick_count = last_call.before.tick_count + 1

\* C20: every source has 0 <= food_left <= max_capacity.
C20_FoodLeftWithinCapacity ==
    \A i \in 1..Len(food_sources) :
        /\ 0 <= food_sources[i].food_left
        /\ food_sources[i].food_left <= MaxCapacity(food_sources[i].cls)

\* C20 witness: a regeneration that would pass max_capacity stopped at it.
C20_Witness ==
    /\ last_call.op = "FoodSource.update"
    /\ ~food_sources[1].is_destroyed
    /\ last_call.before.food_left < MaxCapacity(food_sources[1].cls)
    /\ last_call.before.food_left + Regen(food_sources[1].cls, food_sources[1].area)
           > MaxCapacity(food_sources[1].cls)
    /\ food_sources[1].food_left = MaxCapacity(food_sources[1].cls)

(***************************************************************************)
(* Claims about where the food sources stand and when they are updated.    *)
(***************************************************************************)
\* C21: no two sources that are not destroyed stand in the same cell.
C21_OneLiveSourcePerCell ==
    \A i, j \in 1..Len(food_sources) :
        (/\ i # j
         /\ ~food_sources[i].is_destroyed
         /\ ~food_sources[j].is_destroyed) =>
            <<food_sources[i].x, food_sources[i].y>> #
                <<food_sources[j].x, food_sources[j].y>>

\* C21 witness: the second tick is over, a source and the clone it made in
\* the first tick stand side by side, and the source's second draw onto
\* the clone's cell placed nothing (the area holds these two sources only).
C21_Witness ==
    /\ sim_pc = "release"
    /\ tick_counter = 302
    /\ \E i, j \in 1..Len(food_sources) :
          /\ food_sources[i].age = 302
          /\ food_sources[j].age = 2
          /\ food_sources[j].area = food_sources[i].area
          /\ food_sources[j].y = food_sources[i].y
          /\ food_sources[j].x = food_sources[i].x - 1
          /\ LiveSources(food_sources, food_sources[i].area) = 2
          /\ current_food_sources[food_sources[i].area] = 1

\* every source stands inside the grid, in the area get_area_at gives for
\* its cell
SourcesInTheirAreas ==
    \A i \in 1..Len(food_sources) :
        LET s == food_sources[i]
        IN  /\ 0 <= s.x /\ s.x < grid_width
            /\ 0 <= s.y /\ s.y < grid_height
            /\ s.area = get_area_at(grid_width, grid_height, s.x, s.y)

\* a source appended by a step of the loop has the type and the area of
\* the source the loop is at
CloneLikeItsSource ==
    Len(food_sources') > Len(food_sources) =>
        /\ sim_pc = "sources"
        /\ Len(food_sources') = Len(food_sources) + 1
        /\ food_sources'[Len(food_sources')].cls = food_sources[source_index].cls
        /\ food_sources'[Len(food_sources')].area = food_sources[source_index].area

\* C22: every source lies inside the grid and its area is the one
\* get_area_at returns for its cell; a source created by expansion has the
\* type and the area of the source it was cloned from.
C22_SourcesInGridAndArea ==
    /\ []SourcesInTheirAreas
    /\ [][CloneLikeItsSource]_vars

\* C22 witness: on the 6 x 6 world a clone of the grass patch stands in
\* column 0 of the Plains, and the cactus has a clone too.
C22_Witness ==
    /\ grid_width = 6
    /\ \E i \in 1..Len(food_sources) :
          /\ food_sources[i].cls = "SimpleGrassPatch"
          /\ food_sources[i].x = 0
          /\ food_sources[i].area = 1
          /\ food_sources[i].age < 300
    /\ \E i \in 1..Len(food_sources) :
          /\ food_sources[i].cls = "CactusPads"
          /\ food_sources[i].area = 3
          /\ food_sources[i].age < 300

\* outside the loop over the sources every source has been updated in
\* every tick since it was added: the first is as old as the world, the
\* later ones are not older than the earlier ones, none has age 0
UpdatedSinceAdded ==
    sim_pc # "sources" =>
        /\ \A i \in 1..Len(food_sources) :
              1 <= food_sources[i].age /\ food_sources[i].age <= tick_counter
        /\ \A i, j \in 1..Len(food_sources) :
              i < j => food_sources[i].age >= food_sources[j].age
        /\ food_sources # <<>> => food_sources[1].age = tick_counter

\* the loop starts at the first source, each of its steps updates the
\* source it is at (age + 1) and no other, appends at most one new source
\* of age 0 and moves to the next source, and the loop ends only behind
\* the last source of the list as it then is; no other step touches the
\* sources
OneUpdateEach ==
    /\ (sim_pc # "sources" /\ sim_pc' = "sources") => source_index' = 1
    /\ (sim_pc = "sources" /\ sim_pc' = "sources") =>
          /\ source_index <= Len(food_sources)
          /\ source_index' = source_index + 1
          /\ food_sources'[source_index].age = food_sources[source_index].age + 1
          /\ \A j \in 1..Len(food_sources) :
                j # source_index => food_sources'[j] = food_sources[j]
          /\ Len(food_sources') \in {Len(food_sources), Len(food_sources) + 1}
          /\ Len(food_sources') > Len(food_sources) =>
                food_sources'[Len(food_sources')].age = 0
    /\ (sim_pc = "sources" /\ sim_pc' # "sources") =>
          /\ source_index = Len(food_sources) + 1
          /\ food_sources' = food_sources
    /\ sim_pc # "sources" => food_sources' = food_sources

\* C27: every source in food_sources is updated exactly once in every tick
\* from the tick in which it was added on; a source appended during the
\* loop is reached by the same loop, so a tick can spawn a chain of clones.
C27_EverySourceOncePerTick ==
    /\ []UpdatedSinceAdded
    /\ [][OneUpdateEach]_vars

\* C27 witness: in tick 301 on the 6 x 6 world the grass patch at (2, 2)
\* made a clone at (1, 2), and that clone, updated in the same tick, made
\* one at (0, 2), updated in the same tick as well.
C27_Witness ==
    /\ grid_width = 6
    /\ tick_counter = 301
    /\ sim_pc = "agents"
    /\ \E i, j \in 1..Len(food_sources) :
          /\ i < j
          /\ food_sources[i].cls = "SimpleGrassPatch"
          /\ <<food_sources[i].x, food_sources[i].y>> = <<1, 2>>
          /\ <<food_sources[j].x, food_sources[j].y>> = <<0, 2>>
          /\ food_sources[i].age = 1
          /\ food_sources[j].age = 1

(***************************************************************************)
(* Claims about what an agent decides and does.                            *)
(***************************************************************************)
\* C23: decide() returns as action the position (from 0) of the largest of
\* the first action_count outputs, the lowest such position when several
\* tie; the action is in 0..action_count-1; turn and intensity are the
\* outputs at positions action_count and action_count + 1 (from 0).
C23_DecideArgMax ==
    last_call.op = "Agent.decide" =>
        LET o == last_call.outputs
            r == last_call.result
            best == r.action + 1
        IN  /\ r.action \in 0..(action_count - 1)
            /\ \A k \in 1..action_count : o[k] <= o[best]
            /\ \A k \in 1..(best - 1) : o[k] < o[best]
            /\ r.turn = o[action_count + 1]
            /\ r.intensity = o[action_count + 2]

\* C23 witness: the outputs for IDLE and MATE tie for the largest, a later
\* output (turn) is larger than MOVE's, and decide() returned IDLE.
C23_Witness ==
    /\ last_call.op = "Agent.decide"
    /\ last_call.outputs[ACTION_IDLE + 1] = 1000
    /\ last_call.outputs[ACTION_MATE + 1] = 1000
    /\ last_call.outputs[ACTION_MOVE + 1] = 0
    /\ last_call.outputs[action_count + 1] = -1000
    /\ last_call.outputs[action_count + 2] = 1000
    /\ last_call.result = [action |-> ACTION_IDLE, turn |-> -1000, intensity |-> 1000]

\* what an update() of a living agent that chose MATE or ATTACK leaves of
\* agent a: same place, same heading, energy less the action's cost and
\* the upkeep, one update older, hp not higher
AfterStubAction(a, b) ==
    LET cost == IF b.last_action = ACTION_ATTACK THEN 8 ELSE 5
    IN  /\ b = [a EXCEPT !.last_action = b.last_action,
                         !.energy = Max(0, Max(0, a.energy - cost) - 1),
                         !.age = a.age + 1,
                         !.hp = b.hp]
        /\ b.hp <= a.hp

\* an update() changes the agent it is called on and nothing else
OnlyTheActingAgent ==
    last_call'.op = "Agent.update" =>
        LET i == last_call'.index
        IN  /\ Len(agents') = Len(agents)
            /\ \A j \in 1..Len(agents) : j # i => agents'[j] = agents[j]
            /\ food_sources' = food_sources
            /\ food_items' = food_items
            /\ current_food_sources' = current_food_sources
            /\ (is_alive(agents[i]) /\ agents'[i].last_action \in {ACTION_MATE, ACTION_ATTACK})
                   => AfterStubAction(agents[i], agents'[i])

\* C24: an agent's update() leaves every other agent, every food source,
\* every Food and every area counter unchanged, whatever the action; with
\* MATE or ATTACK it leaves the agent's own position and heading unchanged
\* too and only deducts energy, besides the aging and upkeep of every update.
C24_UpdateChangesOnlyItsAgent ==
    [][OnlyTheActingAgent]_vars

\* C24 witness: the second agent attacked after the first had moved away
\* from its corner; sources, Food and counters are those of the start.
C24_Witness ==
    /\ last_call.op = "Agent.update"
    /\ last_call.index = 2
    /\ agents[2].last_action = ACTION_ATTACK
    /\ agents[2].age = 1
    /\ agents[2].x = last_call.before.x
    /\ agents[2].energy = last_call.before.energy - 9
    /\ agents[1].age = 1
    /\ <<agents[1].x, agents[1].y>> # <<0, 0>>
    /\ Len(food_sources) = 4
    /\ Len(food_items) = 1

AgesByOne ==
    last_call'.op = "Agent.update" =>
        LET i == last_call'.index
        IN  is_alive(agents[i]) => agents'[i].age = agents[i].age + 1

AllDead == \A i \in 1..Len(agents) : ~is_alive(agents[i])

\* no agent is older than max_age, and one that has reached it is dead
DeadAtMaxAge ==
    \A i \in 1..Len(agents) :
        /\ agents[i].age <= agents[i].max_age
        /\ agents[i].age >= agents[i].max_age => ~is_alive(agents[i])

\* C25: while an agent is alive each update adds exactly 1 to its age, an
\* agent whose age has reached max_age is dead, and when the updates keep
\* coming every agent is eventually dead, whatever it chooses to do.
C25_EveryAgentDies ==
    /\ []DeadAtMaxAge
    /\ [][AgesByOne]_vars
    /\ <>AllDead

\* C25 witness: an agent that idled all its life, with energy and hp to
\* spare, died in the update that took it to max_age.
C25_Witness ==
    /\ last_call.op = "Agent.update"
    /\ agents[1].last_action = ACTION_IDLE
    /\ agents[1].age = agents[1].max_age
    /\ last_call.before.hp = agents[1].max_hp
    /\ agents[1].energy > 1000
    /\ ~is_alive(agents[1])

(***************************************************************************)
(* Claims about the lock.                                                  *)
(***************************************************************************)
\* data_lock is held by the simulation thread exactly while it is inside a
\* tick, and by the reader exactly while it is inside its pass
LockFollowsTheBlocks ==
    /\ (data_lock = "sim") <=> (sim_pc \in InTick)
    /\ (data_lock = "render") <=> (render_pc \in InRender)

\* a thread that holds the lock can step, so a thread that waits for it is
\* not stuck
HolderCanStep ==
    /\ data_lock = "sim" => ENABLED (SimSource(FALSE, FALSE, 0, 0)
                                        \/ SimFoodItems \/ SimAgents \/ SimRelease)
    /\ data_lock = "render" => ENABLED (RenderDraw \/ RenderRelease)
    /\ (sim_pc = "acquire" /\ data_lock = "free") => ENABLED SimAcquire
    /\ (render_pc = "idle" /\ data_lock = "free") => ENABLED RenderAcquire

\* C28: the simulation thread holds data_lock only inside a tick (it
\* sleeps outside), whoever holds the lock can go on, and with fair
\* scheduling the lock is always released again, a main loop that calls
\* render() gets the lock, and the simulation thread that asks for the lock
\* runs its next tick.
C28_LockIsAlwaysReleased ==
    /\ []LockFollowsTheBlocks
    /\ []HolderCanStep
    /\ (data_lock # "free" ~> data_lock = "free")
    /\ (render_pc = "idle" ~> render_pc = "sources")
    /\ (sim_pc = "acquire" ~> sim_pc = "sources")

\* C28 witness: after a whole tick and its sleep the simulation thread asks
\* for the lock again while the reader has just taken it.
C28_Witness ==
    /\ sim_pc = "acquire"
    /\ render_pc = "sources"
    /\ data_lock = "render"
    /\ tick_counter = 1000
    /\ running

====
